---- MODULE Spec2Model ----
(***************************************************************************)
(* The file-backed agent registry of agent-master-console                  *)
(* (server/agent_core/agent_registry.py): one JSON file per agent record,  *)
(* keyed by the record's id, with the parent/child hierarchy derived from  *)
(* each record's parent_agent_id by rescanning the directory.              *)
(*                                                                         *)
(* A Python dict is a TLA+ function whose domain is the set of its keys;   *)
(* a Python list is a sequence; a call's outcome is a record               *)
(* [ok, err, val]: a return value, or the exception that left the call.    *)
(***************************************************************************)
EXTENDS Integers, Sequences, FiniteSets, TLC

\* ------------------------------------------------------------- bounds
\* Number of uuids the registry can draw in each specification.
NumStoreIds == 2
NumTreeIds == 3
NumChainIds == 3
NumMatchIds == 2
NumConcIds == 2
NumTravIds == 3
\* Store changes that may run while one get_agent_tree call is under way.
MaxDuring == 1
NumHttpIds == 2
NumEdgeIds == 2
NumGenIds == 1
MaxTurns == 1
NumChatIds == 1
MaxMessages == 1
MaxWsMessages == 1
MaxEvents == 1
\* AgentCreate.name and AgentUpdate.name: constr(max_length=100).
MaxNameLength == 100
Max(a, b) == IF a > b THEN a ELSE b
MaxIds ==
    Max(Max(Max(NumStoreIds, NumTreeIds), Max(NumChainIds, NumMatchIds)),
        NumTravIds)

\* The deepest nesting of build()/dfs() calls the interpreter allows before it
\* raises RecursionError.  CPython's limit (1000) is larger than any chain of
\* distinct records the bounded store can hold; the model keeps that relation.
RecursionLimit == MaxIds + 2

VARIABLES files, result, threads, trav,
          sessions, active_connections, runners, sockets
\* The state of the chat transport: AgentRuntime.sessions,
\* WebSocketManager.active_connections, AgentOrchestrator._runners and the
\* handler of each websocket.
transport == <<sessions, active_connections, runners, sockets>>
vars == <<files, result, threads, trav, transport>>

\* ------------------------------------------------------------- values
None == "None"
EmptyDict == [k \in {} |-> None]

\* str(uuid.uuid4()): the i-th uuid the model can draw.  Its first eight
\* characters are Prefix8(i); two uuids may share them.
Prefix8(i) == "p" \o ToString((i + 1) \div 2)
Uuid(i) == Prefix8(i) \o "-" \o ToString(i)
UuidIndex(agent_id) == CHOOSE i \in 1..MaxIds : Uuid(i) = agent_id
\* agent_id[:8]
First8(agent_id) == Prefix8(UuidIndex(agent_id))

DefaultModel == "gpt-4.1-mini"
DefaultSystemPrompt == "You are a helpful assistant."
DefaultName(agent_id) == "Agent " \o First8(agent_id)

\* dict.get(key, default)
DictGet(d, key, default) == IF key \in DOMAIN d THEN d[key] ELSE default

\* value in list
InList(value, list) == \E i \in DOMAIN list : list[i] = value

Return(v) == [ok |-> TRUE, err |-> "", val |-> v]
Raise(e) == [ok |-> FALSE, err |-> e, val |-> None]

\* _agent_path naming the file by the first eight characters of the id.
AgentPathShort(agent_id) == First8(agent_id) \o ".json"

\* ------------------------------------------------------------- storage
\* _agent_path: the file a record is stored under.
AgentPath(agent_id) == agent_id \o ".json"

\* json.dump / json.load of a dict whose values are strings and lists of
\* strings: an object with one member per key, and back.
JsonDump(d) == [k \in DOMAIN d |-> d[k]]
JsonLoad(j) == [k \in DOMAIN j |-> j[k]]

\* os.listdir filtered on ".json", in the directory's enumeration order.  The
\* order is a fixed function of the file names; uuids are drawn in any order
\* and every hierarchy can be laid over every assignment of uuids, so every
\* relative order of siblings occurs.
RECURSIVE IterFrom(_, _)
IterFrom(fs, i) ==
    IF i > MaxIds THEN <<>>
    ELSE (IF AgentPath(Uuid(i)) \in DOMAIN fs THEN <<AgentPath(Uuid(i))>> ELSE <<>>)
         \o IterFrom(fs, i + 1)
IterAgentFiles(fs) == IterFrom(fs, 1)

\* list_agents
ListAgents(fs) ==
    LET paths == IterAgentFiles(fs)
    IN  [i \in DOMAIN paths |-> JsonLoad(fs[paths[i]])]

\* create_agent storing every key of the config beside its own five.
NewConfigKeepsExtras(config, agent_id) ==
    [k \in (DOMAIN config) \cup {"id", "name", "model", "system_prompt", "tools"}
       |-> IF k = "id" THEN agent_id
           ELSE IF k = "name" THEN DictGet(config, "name", DefaultName(agent_id))
           ELSE IF k = "model" THEN DictGet(config, "model", DefaultModel)
           ELSE IF k = "system_prompt"
                THEN DictGet(config, "system_prompt", DefaultSystemPrompt)
           ELSE IF k = "tools" THEN DictGet(config, "tools", <<>>)
           ELSE config[k]]

\* create_agent storing the short form of the id in the record.
NewConfigShortId(config, agent_id) ==
    [id |-> First8(agent_id),
     name |-> DictGet(config, "name", DefaultName(agent_id)),
     model |-> DictGet(config, "model", DefaultModel),
     system_prompt |-> DictGet(config, "system_prompt", DefaultSystemPrompt),
     tools |-> DictGet(config, "tools", <<>>)]

\* create_agent that names every record from its id, whatever the caller gave.
NewConfigNameFromId(config, agent_id) ==
    [id |-> agent_id,
     name |-> DefaultName(agent_id),
     model |-> DictGet(config, "model", DefaultModel),
     system_prompt |-> DictGet(config, "system_prompt", DefaultSystemPrompt),
     tools |-> DictGet(config, "tools", <<>>)]

\* create_agent, lines 33-39: the record built from the caller's config.
NewConfig(config, agent_id) ==
    [id |-> agent_id,
     name |-> DictGet(config, "name", DefaultName(agent_id)),
     model |-> DictGet(config, "model", DefaultModel),
     system_prompt |-> DictGet(config, "system_prompt", DefaultSystemPrompt),
     tools |-> DictGet(config, "tools", <<>>)]

\* Every record written to one file.
WriteFileFixedName(fs, path, d) ==
    [p \in (DOMAIN fs) \cup {"agents.json"} |->
       IF p = "agents.json" THEN JsonDump(d) ELSE fs[p]]

\* open(path, "w") + json.dump
WriteFile(fs, path, d) ==
    [p \in (DOMAIN fs) \cup {path} |-> IF p = path THEN JsonDump(d) ELSE fs[p]]

\* get_agent handing out a defaulted record for an id without a file.
GetAgentDefaulted(fs, agent_id) ==
    IF AgentPath(agent_id) \notin DOMAIN fs
    THEN Return(NewConfig(EmptyDict, agent_id))
    ELSE Return(JsonLoad(fs[AgentPath(agent_id)]))

\* get_agent looking the file up under the short form of the id.
GetAgentShortPath(fs, agent_id) ==
    IF AgentPath(First8(agent_id)) \notin DOMAIN fs
    THEN Raise("FileNotFoundError")
    ELSE Return(JsonLoad(fs[AgentPath(First8(agent_id))]))

\* get_agent
GetAgent(fs, agent_id) ==
    IF AgentPath(agent_id) \notin DOMAIN fs
    THEN Raise("FileNotFoundError")
    ELSE Return(JsonLoad(fs[AgentPath(agent_id)]))

\* update_agent merging with dict.update and no care for the id key.
MergeUpdatesKeepsId(agent, updates, agent_id) ==
    [k \in (DOMAIN agent) \cup (DOMAIN updates) |->
       IF k \in DOMAIN updates THEN updates[k] ELSE agent[k]]

\* update_agent writing the updates in place of the record.
MergeUpdatesReplaces(agent, updates, agent_id) ==
    LET keys == (DOMAIN updates) \ {"id"}
    IN  [k \in keys \cup {"id"} |-> IF k = "id" THEN agent_id ELSE updates[k]]

\* update_agent, lines 57-61: merge the updates into the loaded record.
MergeUpdates(agent, updates, agent_id) ==
    LET keys == (DOMAIN updates) \ {"id"}
        merged == [k \in (DOMAIN agent) \cup keys |->
                     IF k \in keys THEN updates[k] ELSE agent[k]]
    IN  [k \in (DOMAIN merged) \cup {"id"} |->
           IF k = "id" THEN agent_id ELSE merged[k]]


\* ------------------------------------------------------------- hierarchy
\* _get_children: scan every file, keep the records whose parent_agent_id
\* equals the given id, in enumeration order.
RECURSIVE ChildrenFrom(_, _, _, _)
ChildrenFrom(fs, paths, i, parent_agent_id) ==
    IF i > Len(paths) THEN <<>>
    ELSE LET data == JsonLoad(fs[paths[i]])
         IN  (IF DictGet(data, "parent_agent_id", None) = parent_agent_id
              THEN <<data>> ELSE <<>>)
             \o ChildrenFrom(fs, paths, i + 1, parent_agent_id)
\* _get_children returning from inside the loop, after the first child.
GetChildrenFirstOnly(fs, parent_agent_id) ==
    LET all == ChildrenFrom(fs, IterAgentFiles(fs), 1, parent_agent_id)
    IN  IF all = <<>> THEN <<>> ELSE <<all[1]>>
GetChildren(fs, parent_agent_id) ==
    ChildrenFrom(fs, IterAgentFiles(fs), 1, parent_agent_id)

\* get_agent_tree.build: the node, then each child in turn.  depth counts the
\* nested build() calls; beyond RecursionLimit the interpreter raises
\* RecursionError, which leaves every enclosing call.
RECURSIVE Build(_, _, _)
RECURSIVE BuildChildren(_, _, _, _)
Build(fs, node, depth) ==
    IF depth > RecursionLimit THEN Raise("RecursionError")
    ELSE LET sub == BuildChildren(fs, GetChildren(fs, DictGet(node, "id", None)),
                                  1, depth)
         IN  IF ~sub.ok THEN sub
             ELSE Return([id |-> DictGet(node, "id", None),
                          name |-> DictGet(node, "name", None),
                          model |-> DictGet(node, "model", None),
                          system_prompt |-> DictGet(node, "system_prompt", None),
                          tools |-> DictGet(node, "tools", <<>>),
                          children |-> sub.val])
BuildChildren(fs, kids, i, depth) ==
    IF i > Len(kids) THEN Return(<<>>)
    ELSE LET t == Build(fs, kids[i], depth + 1)
         IN  IF ~t.ok THEN t
             ELSE LET rest == BuildChildren(fs, kids, i + 1, depth)
                  IN  IF ~rest.ok THEN rest
                      ELSE Return(<<t.val>> \o rest.val)

\* get_agent_tree
GetAgentTree(fs, root_agent_id) ==
    LET root == GetAgent(fs, root_agent_id)
    IN  IF ~root.ok THEN root ELSE Build(fs, root.val, 1)

\* matches looking at the capabilities only.
MatchesCapabilitiesOnly(task_type, agent) ==
    InList(task_type, DictGet(agent, "capabilities", <<>>))

\* find_delegation_chain.matches
Matches(task_type, agent) ==
    \/ task_type = DictGet(agent, "agent_type", None)
    \/ InList(task_type, DictGet(agent, "capabilities", <<>>))
    \/ InList(task_type, DictGet(agent, "specializations", <<>>))

\* find_delegation_chain.dfs: Python's None is the empty chain (both are
\* falsy, and a chain that dfs returns has at least one id).
RECURSIVE Dfs(_, _, _, _, _)
RECURSIVE DfsChildren(_, _, _, _, _, _)
Dfs(fs, task_type, agent, path, depth) ==
    IF depth > RecursionLimit THEN Raise("RecursionError")
    ELSE LET current_path == Append(path, DictGet(agent, "id", None))
         IN  IF Matches(task_type, agent) THEN Return(current_path)
             ELSE DfsChildren(fs, task_type,
                              GetChildren(fs, DictGet(agent, "id", None)),
                              1, current_path, depth)
DfsChildren(fs, task_type, kids, i, current_path, depth) ==
    IF i > Len(kids) THEN Return(<<>>)
    ELSE LET chain == Dfs(fs, task_type, kids[i], current_path, depth + 1)
         IN  IF ~chain.ok THEN chain
             ELSE IF chain.val # <<>> THEN chain
             ELSE DfsChildren(fs, task_type, kids, i + 1, current_path, depth)

\* find_delegation_chain without the try/except around get_agent.
FindDelegationChainUncaught(fs, task_type, root_agent_id) ==
    LET root == GetAgent(fs, root_agent_id)
    IN  IF ~root.ok THEN root
        ELSE Dfs(fs, task_type, root.val, <<>>, 1)

\* find_delegation_chain
FindDelegationChain(fs, task_type, root_agent_id) ==
    LET root == GetAgent(fs, root_agent_id)
    IN  IF ~root.ok THEN Return(<<>>)
        ELSE Dfs(fs, task_type, root.val, <<>>, 1)

\* ------------------------------------------------------------- actions
\* create_agent(config): a fresh uuid, the defaults, one file written.
CreateAgent(n, configs) ==
    \E i \in 1..n, c \in DOMAIN configs :
        LET agent_id == Uuid(i)
            config == NewConfig(configs[c], agent_id)
        IN  /\ AgentPath(agent_id) \notin DOMAIN files
            /\ files' = WriteFile(files, AgentPath(agent_id), config)
            /\ result' = [op |-> "create", arg |-> agent_id,
                          config |-> configs[c], out |-> Return(config)]

\* get_agent(agent_id).  `created` remembers the outcome of the call before
\* this one when that call was the create_agent that drew agent_id.
GetAgentCall(n) ==
    \E i \in 1..n :
        LET agent_id == Uuid(i)
        IN  /\ result' = [op |-> "get", arg |-> agent_id,
                          out |-> GetAgent(files, agent_id),
                          created |-> IF result.op = "create" /\ result.arg = agent_id
                                      THEN result.out ELSE Raise("none")]
            /\ UNCHANGED files

\* update_agent that starts from an empty record when the id has no file.
UpdateAgentUpsert(n, updateset) ==
    \E i \in 1..n, u \in DOMAIN updateset :
        LET agent_id == Uuid(i)
            updates == updateset[u]
            got == GetAgent(files, agent_id)
            agent == MergeUpdates(IF got.ok THEN got.val ELSE EmptyDict,
                                  updates, agent_id)
        IN  /\ files' = WriteFile(files, AgentPath(agent_id), agent)
            /\ result' = [op |-> "update", arg |-> agent_id,
                          updates |-> updates, out |-> Return(agent)]

\* update_agent(agent_id, updates)
UpdateAgent(n, updateset) ==
    \E i \in 1..n, u \in DOMAIN updateset :
        LET agent_id == Uuid(i)
            updates == updateset[u]
            got == GetAgent(files, agent_id)
            agent == MergeUpdates(got.val, updates, agent_id)
        IN  IF ~got.ok
            THEN /\ result' = [op |-> "update", arg |-> agent_id,
                               updates |-> updates, out |-> got]
                 /\ UNCHANGED files
            ELSE /\ files' = WriteFile(files, AgentPath(agent_id), agent)
                 /\ result' = [op |-> "update", arg |-> agent_id,
                               updates |-> updates, out |-> Return(agent)]

\* list_agents().  `created` remembers the outcome of the call before this one
\* when that call was a create_agent.
ListAgentsCall ==
    /\ result' = [op |-> "list", arg |-> None, out |-> Return(ListAgents(files)),
                  created |-> IF result.op = "create"
                              THEN result.out ELSE Raise("none")]
    /\ UNCHANGED files


\* get_agent_tree(root_agent_id)
GetAgentTreeCall(n) ==
    \E i \in 1..n :
        /\ result' = [op |-> "tree", arg |-> Uuid(i),
                      out |-> GetAgentTree(files, Uuid(i))]
        /\ UNCHANGED files

\* find_delegation_chain(task_type, root_agent_id)
FindDelegationChainCall(n, tasks) ==
    \E i \in 1..n, t \in DOMAIN tasks :
        /\ result' = [op |-> "chain", arg |-> Uuid(i), task |-> tasks[t],
                      out |-> FindDelegationChain(files, tasks[t], Uuid(i))]
        /\ UNCHANGED files

\* ------------------------------------------------------------- record store
\* The configs and updates the record-store specification draws from.
StoreConfigs ==
    << EmptyDict,
       [name |-> "alpha"],
       [name |-> "alpha", model |-> "gpt-4.1", system_prompt |-> "Be brief.",
        tools |-> <<"search">>] >>

StoreUpdates ==
    << [name |-> "beta"],
       [id |-> Uuid(1), tools |-> <<>>],
       [id |-> "forged", model |-> "gpt-4.1"] >>

\* The request threads of the server: main.py declares its routes with def, so
\* each request runs on a worker thread of its own.  Two of them carry the two
\* update_agent calls of a race.
Threads == {"t1", "t2"}

\* A thread that has not entered update_agent.
IdleThread ==
    [pc |-> "idle", agent_id |-> None, updates |-> EmptyDict,
     agent |-> EmptyDict, out |-> Return(None), overlap |-> FALSE]

\* No get_agent_tree call under way.
IdleTrav ==
    [pc |-> "idle", root |-> None, cur |-> EmptyDict, stack |-> <<>>,
     seen |-> {}, during |-> {}, changes |-> 0]

\* No runtime session, no websocket, no registered runner.
NoTransport ==
    /\ sessions = EmptyDict
    /\ active_connections = EmptyDict
    /\ runners = EmptyDict
    /\ sockets = EmptyDict

Init ==
    /\ files = EmptyDict
    /\ result = [op |-> "init", arg |-> None, out |-> Return(None)]
    /\ threads = [t \in Threads |-> IdleThread]
    /\ trav = IdleTrav
    /\ NoTransport

StoreCreate == CreateAgent(NumStoreIds, StoreConfigs) /\ UNCHANGED <<threads, trav, transport>>
StoreGet == GetAgentCall(NumStoreIds) /\ UNCHANGED <<threads, trav, transport>>
StoreUpdate == UpdateAgent(NumStoreIds, StoreUpdates) /\ UNCHANGED <<threads, trav, transport>>
StoreList == ListAgentsCall /\ UNCHANGED <<threads, trav, transport>>

Next == StoreCreate \/ StoreGet \/ StoreUpdate \/ StoreList

Spec == Init /\ [][Next]_vars

\* ------------------------------------------------------------- tree spec
\* Records created with defaults; updates set the parent link, so every
\* parent graph over the uuids is reached: chains, forests, cycles,
\* self-parented and dangling records.
TreeConfigs == << EmptyDict >>
TreeUpdates == [p \in 1..NumTreeIds |-> [parent_agent_id |-> Uuid(p)]]

TreeCreate == CreateAgent(NumTreeIds, TreeConfigs) /\ UNCHANGED <<threads, trav, transport>>
TreeUpdate == UpdateAgent(NumTreeIds, TreeUpdates) /\ UNCHANGED <<threads, trav, transport>>
TreeBuild == GetAgentTreeCall(NumTreeIds) /\ UNCHANGED <<threads, trav, transport>>

NextTree == TreeCreate \/ TreeUpdate \/ TreeBuild

SpecTree == Init /\ [][NextTree]_vars

\* ------------------------------------------------------------- chain spec
\* As the tree spec, and an update can give a record the capability that the
\* searched task type names.
ChainConfigs == << EmptyDict >>
ChainUpdates ==
    [p \in 1..NumChainIds |-> [parent_agent_id |-> Uuid(p)]]
    \o << [capabilities |-> <<"research">>] >>
ChainTasks == << "research", "nonexistent-capability" >>

ChainCreate == CreateAgent(NumChainIds, ChainConfigs) /\ UNCHANGED <<threads, trav, transport>>
ChainUpdate == UpdateAgent(NumChainIds, ChainUpdates) /\ UNCHANGED <<threads, trav, transport>>
ChainFind == FindDelegationChainCall(NumChainIds, ChainTasks) /\ UNCHANGED <<threads, trav, transport>>

NextChain == ChainCreate \/ ChainUpdate \/ ChainFind

SpecChain == Init /\ [][NextChain]_vars

\* ------------------------------------------------------------- match spec
\* Updates set the three classification fields together, so a record matches
\* "research" by its agent_type, by its capabilities, by its specializations,
\* or not at all.
MatchConfigs == << EmptyDict >>
MatchUpdates ==
    [p \in 1..NumMatchIds |-> [parent_agent_id |-> Uuid(p)]]
    \o << [agent_type |-> "research", capabilities |-> <<>>,
           specializations |-> <<>>],
          [agent_type |-> "general", capabilities |-> <<"writing", "research">>,
           specializations |-> <<>>],
          [agent_type |-> "general", capabilities |-> <<"writing">>,
           specializations |-> <<"research">>],
          [agent_type |-> "general", capabilities |-> <<"writing">>,
           specializations |-> <<>>] >>
MatchTasks == << "research", "nonexistent-capability" >>

MatchCreate == CreateAgent(NumMatchIds, MatchConfigs) /\ UNCHANGED <<threads, trav, transport>>
MatchUpdate == UpdateAgent(NumMatchIds, MatchUpdates) /\ UNCHANGED <<threads, trav, transport>>
MatchFind == FindDelegationChainCall(NumMatchIds, MatchTasks) /\ UNCHANGED <<threads, trav, transport>>

NextMatch == MatchCreate \/ MatchUpdate \/ MatchFind

SpecMatch == Init /\ [][NextMatch]_vars

\* -------- concurrent update_agent calls
\* json.dump(agent, f, indent=2) of a record, in characters: "{", one line
\* '  "key": value' per member, "," between them, "}".  A list value is "[]"
\* or one line of four spaces and the item per element.
ListKeys == {"tools", "capabilities", "specializations"}

RECURSIVE ItemsSize(_, _)
ItemsSize(items, i) ==
    IF i > Len(items) THEN 0
    ELSE Len(items[i]) + 2 + (IF i < Len(items) THEN 6 ELSE 0)
         + ItemsSize(items, i + 1)

ValueSize(k, v) ==
    IF k \in ListKeys
    THEN (IF v = <<>> THEN 2 ELSE 6 + ItemsSize(v, 1) + 4)
    ELSE Len(v) + 2

RECURSIVE MembersSize(_, _)
MembersSize(d, keys) ==
    IF keys = {} THEN 0
    ELSE LET k == CHOOSE x \in keys : TRUE
         IN  2 + Len(k) + 2 + 2 + ValueSize(k, d[k])
             + (IF keys = {k} THEN 0 ELSE 2)
             + MembersSize(d, keys \ {k})

JsonSize(d) == 2 + MembersSize(d, DOMAIN d) + 2

\* What a file holds when it is not the text of one record: nothing, or the
\* text of one record followed by the tail of a longer one.
NotJson(size) == [corrupt |-> TRUE, size |-> size]
IsJson(text) == "corrupt" \notin DOMAIN text
FileSize(text) == IF IsJson(text) THEN JsonSize(text) ELSE text.size

\* open(path, "w"): the file exists and is empty from here on.
OpenW(fs, path) ==
    [p \in (DOMAIN fs) \cup {path} |-> IF p = path THEN NotJson(0) ELSE fs[p]]

\* json.dump into the open file and the close that ends the with block: the
\* buffered text is written at the handle's own offset 0.  What another
\* handle wrote beyond its length stays in the file.
FlushClose(fs, path, d) ==
    [fs EXCEPT ![path] = IF JsonSize(d) >= FileSize(fs[path])
                         THEN JsonDump(d)
                         ELSE NotJson(FileSize(fs[path]))]

\* get_agent on a store whose files other threads are writing: json.load
\* raises JSONDecodeError on a file that is not the text of one record.
ReadAgent(fs, agent_id) ==
    IF AgentPath(agent_id) \in DOMAIN fs /\ ~IsJson(fs[AgentPath(agent_id)])
    THEN Raise("JSONDecodeError")
    ELSE GetAgent(fs, agent_id)

\* update_agent up to the merge: get_agent (line 56) and the loop (57-61).
ConcRead(t, n, updateset) ==
    /\ threads[t].pc = "idle"
    /\ \E i \in 1..n, u \in DOMAIN updateset :
          LET agent_id == Uuid(i)
              updates == updateset[u]
              got == ReadAgent(files, agent_id)
              busy == \E o \in Threads \ {t} :
                         threads[o].pc \in {"open", "close"}
          IN  IF got.ok
              THEN /\ threads' = [threads EXCEPT ![t] =
                          [pc |-> "open", agent_id |-> agent_id,
                           updates |-> updates,
                           agent |-> MergeUpdates(got.val, updates, agent_id),
                           out |-> Return(None), overlap |-> busy]]
                   /\ UNCHANGED result
              ELSE /\ threads' = [threads EXCEPT ![t] =
                          [pc |-> "done", agent_id |-> agent_id,
                           updates |-> updates, agent |-> EmptyDict,
                           out |-> got, overlap |-> busy]]
                   /\ result' = [op |-> "update", arg |-> agent_id,
                                 updates |-> updates, out |-> got]
    /\ UNCHANGED <<files, trav, transport>>

\* update_agent, line 62: open(path, "w").
ConcOpen(t) ==
    /\ threads[t].pc = "open"
    /\ files' = OpenW(files, AgentPath(threads[t].agent_id))
    /\ threads' = [threads EXCEPT ![t].pc = "close"]
    /\ UNCHANGED <<result, trav, transport>>

\* update_agent, lines 63-64: json.dump, the end of the with block, return.
ConcClose(t) ==
    /\ threads[t].pc = "close"
    /\ files' = FlushClose(files, AgentPath(threads[t].agent_id),
                           threads[t].agent)
    /\ threads' = [threads EXCEPT ![t].pc = "done",
                                  ![t].out = Return(threads[t].agent)]
    /\ result' = [op |-> "update", arg |-> threads[t].agent_id,
                  updates |-> threads[t].updates,
                  out |-> Return(threads[t].agent)]
    /\ UNCHANGED <<trav, transport>>

\* The store after one create_agent({}) for each of the first n uuids.
RECURSIVE CreatedStore(_)
CreatedStore(n) ==
    IF n = 0 THEN EmptyDict
    ELSE WriteFile(CreatedStore(n - 1), AgentPath(Uuid(n)),
                   NewConfig(EmptyDict, Uuid(n)))

ConcUpdates ==
    << [name |-> "beta"],
       [parent_agent_id |-> Uuid(1)],
       [id |-> "forged", model |-> "gpt-4.1"] >>

InitConc ==
    /\ files = CreatedStore(NumConcIds)
    /\ result = [op |-> "init", arg |-> None, out |-> Return(None)]
    /\ threads = [t \in Threads |-> IdleThread]
    /\ trav = IdleTrav
    /\ NoTransport

ConcUpdateRead == \E t \in Threads : ConcRead(t, NumConcIds, ConcUpdates)
ConcUpdateOpen == \E t \in Threads : ConcOpen(t)
ConcUpdateClose == \E t \in Threads : ConcClose(t)

NextConc == ConcUpdateRead \/ ConcUpdateOpen \/ ConcUpdateClose

SpecConc == InitConc /\ [][NextConc]_vars

\* -------- get_agent_tree beside other requests
\* build's tree_node left without the children it was given.
TreeNodeNoChildren(node, children) ==
    [id |-> DictGet(node, "id", None),
     name |-> DictGet(node, "name", None),
     model |-> DictGet(node, "model", None),
     system_prompt |-> DictGet(node, "system_prompt", None),
     tools |-> DictGet(node, "tools", <<>>),
     children |-> <<>>]

\* build, lines 83-90 and 92: the tree_node of a record around its children.
TreeNode(node, children) ==
    [id |-> DictGet(node, "id", None),
     name |-> DictGet(node, "name", None),
     model |-> DictGet(node, "model", None),
     system_prompt |-> DictGet(node, "system_prompt", None),
     tools |-> DictGet(node, "tools", <<>>),
     children |-> children]

\* build between two _get_children calls.  The stack holds one frame per
\* build() call that is inside its for loop: its node, the children still to
\* come and the subtrees appended so far.  Unwind returns the finished tree
\* to the callers until one of them has a child left, whose build() is the
\* next to call _get_children.
RECURSIVE Unwind(_, _)
Unwind(stack, tree) ==
    IF stack = <<>>
    THEN [done |-> TRUE, tree |-> tree, cur |-> EmptyDict, stack |-> <<>>]
    ELSE LET top == stack[Len(stack)]
             rest == SubSeq(stack, 1, Len(stack) - 1)
             built == Append(top.built, tree)
         IN  IF top.kids = <<>>
             THEN Unwind(rest, TreeNode(top.node, built))
             ELSE [done |-> FALSE, tree |-> tree, cur |-> Head(top.kids),
                   stack |-> Append(rest, [node |-> top.node,
                                           kids |-> Tail(top.kids),
                                           built |-> built])]

\* The tree of a root in one state of the store, when it has one.
TreeOf(fs, root_agent_id) ==
    LET t == GetAgentTree(fs, root_agent_id)
    IN  IF t.ok THEN {t.val} ELSE {}

\* get_agent_tree, line 76: root = self.get_agent(root_agent_id).
TravBegin(roots) ==
    /\ trav.pc = "idle"
    /\ \E root_agent_id \in roots :
          LET root == GetAgent(files, root_agent_id)
          IN  IF root.ok
              THEN /\ trav' = [pc |-> "run", root |-> root_agent_id,
                               cur |-> root.val, stack |-> <<>>,
                               seen |-> TreeOf(files, root_agent_id),
                               during |-> {}, changes |-> 0]
                   /\ result' = [op |-> "walk", arg |-> root_agent_id,
                                 out |-> Raise("running"),
                                 seen |-> {}, during |-> {}]
              ELSE /\ result' = [op |-> "walk", arg |-> root_agent_id,
                                 out |-> root, seen |-> {}, during |-> {}]
                   /\ UNCHANGED trav
    /\ UNCHANGED <<files, threads, transport>>

\* The end of the get_agent_tree call.
TravEnd(out) ==
    /\ result' = [op |-> "walk", arg |-> trav.root, out |-> out,
                  seen |-> trav.seen, during |-> trav.during]
    /\ trav' = IdleTrav

\* One build() call up to and including its _get_children (line 91), and the
\* returns and appends that follow until the next build() call.
TravStep ==
    /\ trav.pc = "run"
    /\ IF Len(trav.stack) + 1 > RecursionLimit
       THEN TravEnd(Raise("RecursionError"))
       ELSE LET kids == GetChildren(files, DictGet(trav.cur, "id", None))
                up == Unwind(trav.stack, TreeNode(trav.cur, <<>>))
            IN  IF kids # <<>>
                THEN /\ trav' = [trav EXCEPT
                            !.cur = Head(kids),
                            !.stack = Append(trav.stack,
                                             [node |-> trav.cur,
                                              kids |-> Tail(kids),
                                              built |-> <<>>])]
                     /\ UNCHANGED result
                ELSE IF up.done THEN TravEnd(Return(up.tree))
                ELSE /\ trav' = [trav EXCEPT !.cur = up.cur,
                                             !.stack = up.stack]
                     /\ UNCHANGED result
    /\ UNCHANGED <<files, threads, transport>>

\* A request that another thread serves while a get_agent_tree call is under
\* way: the call's record of the store's states takes in the new state.
Beside(kind) ==
    /\ IF trav.pc = "run"
       THEN /\ trav.changes < MaxDuring
            /\ trav' = [trav EXCEPT
                   !.seen = @ \cup TreeOf(files', trav.root),
                   !.during = IF files' = files THEN @ ELSE @ \cup {kind},
                   !.changes = @ + 1]
       ELSE UNCHANGED trav
    /\ UNCHANGED <<threads, transport>>

\* Every create_agent asks for a parent; the updates move a record below
\* one of the first two records; the trees are those of these two.
TravConfigs == << [parent_agent_id |-> Uuid(1)] >>
TravUpdates == << [parent_agent_id |-> Uuid(1)], [parent_agent_id |-> Uuid(2)] >>
TravRoots == {Uuid(1), Uuid(2)}

TravCreate == CreateAgent(NumTravIds, TravConfigs) /\ Beside("create")
TravUpdate == UpdateAgent(NumTravIds, TravUpdates) /\ Beside("update")
TravStart == TravBegin(TravRoots)
TravScan == TravStep

NextTrav == TravCreate \/ TravUpdate \/ TravStart \/ TravScan

SpecTrav == Init /\ [][NextTrav]_vars

\* -------- the HTTP routes
\* A JSON request body: the members that carry a value, and the keys of the
\* members that are null.
Body(fields, nulls) == [fields |-> fields, nulls |-> nulls]

RECURSIVE Repeat(_, _)
Repeat(str, n) == IF n = 0 THEN "" ELSE str \o Repeat(str, n - 1)

\* constr(min_length=1) on every item of a list.
RECURSIVE ItemsOk(_, _)
ItemsOk(items, i) ==
    i > Len(items) \/ (Len(items[i]) >= 1 /\ ItemsOk(items, i + 1))

\* name without its min_length.
NameOkNoMinLength(fields) ==
    "name" \in DOMAIN fields => Len(fields.name) <= MaxNameLength

\* constr(min_length=1, max_length=100) of name, when the body carries one.
NameOk(fields) ==
    "name" \in DOMAIN fields
        => (Len(fields.name) >= 1 /\ Len(fields.name) <= MaxNameLength)

\* The constraints AgentCreate and AgentUpdate share on the values of name,
\* model, system_prompt and tools.
FieldsOk(fields) ==
    /\ NameOk(fields)
    /\ "model" \in DOMAIN fields => Len(fields.model) >= 1
    /\ "system_prompt" \in DOMAIN fields => Len(fields.system_prompt) >= 1
    /\ "tools" \in DOMAIN fields => ItemsOk(fields.tools, 1)

CreateKeys == {"name", "model", "system_prompt", "tools"}
UpdateKeys ==
    {"name", "model", "system_prompt", "tools", "parent_agent_id",
     "capabilities", "specializations"}

\* AgentCreate(**body).model_dump(): name is required, no field may be null,
\* members the model does not declare are ignored, defaults fill the rest.
ValidateCreate(body) ==
    IF \/ "name" \notin DOMAIN body.fields
       \/ body.nulls \cap CreateKeys # {}
       \/ ~FieldsOk(body.fields)
    THEN Raise("RequestValidationError")
    ELSE Return([name |-> body.fields.name,
                 model |-> DictGet(body.fields, "model", DefaultModel),
                 system_prompt |-> DictGet(body.fields, "system_prompt",
                                           DefaultSystemPrompt),
                 tools |-> DictGet(body.fields, "tools", <<>>)])

\* model_dump() that keeps the members that are None.
DumpKeepsNone(body) ==
    [k \in ((DOMAIN body.fields) \cup body.nulls) \cap UpdateKeys |->
        IF k \in body.nulls THEN None ELSE body.fields[k]]

\* model_dump(exclude_none=True): the declared members that carry a value.
DumpExcludeNone(body) ==
    [k \in (DOMAIN body.fields) \cap UpdateKeys |-> body.fields[k]]

\* AgentUpdate(**body): every field is Optional, so null passes.
ValidateUpdate(body) ==
    IF ~FieldsOk(body.fields) THEN Raise("RequestValidationError")
    ELSE Return(DumpExcludeNone(body))

Response(op, arg, body, status, out) ==
    [op |-> op, arg |-> arg, body |-> body, status |-> status, out |-> out]

\* POST /agents (main.py)
HttpCreateAgent(n, bodies) ==
    \E b \in DOMAIN bodies :
        LET config == ValidateCreate(bodies[b])
        IN  IF ~config.ok
            THEN /\ result' = Response("POST /agents", None, bodies[b],
                                       422, EmptyDict)
                 /\ UNCHANGED files
            ELSE \E i \in 1..n :
                    LET agent_id == Uuid(i)
                        agent == NewConfig(config.val, agent_id)
                    IN  /\ AgentPath(agent_id) \notin DOMAIN files
                        /\ files' = WriteFile(files, AgentPath(agent_id),
                                              agent)
                        /\ result' = Response("POST /agents", agent_id,
                                              bodies[b], 201, agent)

\* GET /agents/{agent_id} (main.py)
HttpGetAgent(n) ==
    \E i \in 1..n :
        LET got == GetAgent(files, Uuid(i))
        IN  /\ result' = IF got.ok
                         THEN Response("GET /agents/{agent_id}", Uuid(i),
                                       Body(EmptyDict, {}), 200, got.val)
                         ELSE Response("GET /agents/{agent_id}", Uuid(i),
                                       Body(EmptyDict, {}), 404, EmptyDict)
            /\ UNCHANGED files

\* PUT /agents/{agent_id} (main.py)
HttpUpdateAgent(n, bodies) ==
    \E i \in 1..n, b \in DOMAIN bodies :
        LET updates == ValidateUpdate(bodies[b])
            agent_id == Uuid(i)
            got == GetAgent(files, agent_id)
            agent == MergeUpdates(got.val, updates.val, agent_id)
        IN  IF ~updates.ok
            THEN /\ result' = Response("PUT /agents/{agent_id}", agent_id,
                                       bodies[b], 422, EmptyDict)
                 /\ UNCHANGED files
            ELSE IF ~got.ok
            THEN /\ result' = Response("PUT /agents/{agent_id}", agent_id,
                                       bodies[b], 404, EmptyDict)
                 /\ UNCHANGED files
            ELSE /\ files' = WriteFile(files, AgentPath(agent_id), agent)
                 /\ result' = Response("PUT /agents/{agent_id}", agent_id,
                                       bodies[b], 200, agent)

\* AgentOrchestrator.create_agent and register_agent, behind POST /agents of
\* routes.py: the agent and its runner under the name.
RoutesCreateAgent(requests) ==
    \E r \in DOMAIN requests :
        LET request == requests[r]
            agent == [name |-> request.name,
                      description |-> request.description,
                      model |-> request.model]
        IN  /\ runners' = [k \in (DOMAIN runners) \cup {request.name} |->
                              IF k = request.name THEN agent ELSE runners[k]]
            /\ result' = Response("POST /agents (routes)", request.name,
                                  Body(request, {}), 200, agent)

\* GET /agents/{name} (routes.py)
RoutesGetAgent(names) ==
    \E name \in names :
        result' = IF name \in DOMAIN runners
                  THEN Response("GET /agents/{name}", name,
                                Body(EmptyDict, {}), 200, runners[name])
                  ELSE Response("GET /agents/{name}", name,
                                Body(EmptyDict, {}), 404, EmptyDict)

\* The agents of api/index.py.
IndexAgents ==
    [name \in {"assistant", "coder"} |->
        IF name = "assistant"
        THEN [name |-> "assistant",
              description |-> "Main AI assistant for general tasks",
              model |-> "gemini-2.5-flash"]
        ELSE [name |-> "coder",
              description |-> "Specialized coding assistant",
              model |-> "gemini-2.5-pro"]]

\* GET /api/agents/{name} (api/index.py): agents.get(name, {"error": ...}),
\* returned as it is.
IndexGetAgent(names) ==
    \E name \in names :
        result' = Response("GET /api/agents/{name}", name,
                           Body(EmptyDict, {}), 200,
                           IF name \in DOMAIN IndexAgents
                           THEN IndexAgents[name]
                           ELSE [error |-> "Agent not found"])

HttpCreateBodies ==
    << Body([name |-> "alpha"], {}),
       Body([name |-> "beta", id |-> "forged"], {}),
       Body([name |-> ""], {}),
       Body(EmptyDict, {}),
       Body([name |-> Repeat("x", MaxNameLength + 1)], {}),
       Body([name |-> "alpha", model |-> ""], {}),
       Body([name |-> "alpha", tools |-> <<"search", "">>], {}),
       Body([name |-> "alpha"], {"system_prompt"}) >>

HttpUpdateBodies ==
    << Body([name |-> "beta"], {}),
       Body([name |-> ""], {}),
       Body([parent_agent_id |-> Uuid(1)], {}),
       Body([parent_agent_id |-> Uuid(2)], {"name"}),
       Body(EmptyDict, {"parent_agent_id"}),
       Body([system_prompt |-> "", parent_agent_id |-> Uuid(1)], {}) >>

RoutesCreateRequests ==
    << [name |-> "assistant", description |-> "General tasks",
        instruction |-> "Help.", model |-> "gemini-2.5-flash"] >>

HttpNames == {"assistant", "ghost"}

HttpCreate ==
    /\ HttpCreateAgent(NumHttpIds, HttpCreateBodies)
    /\ UNCHANGED <<threads, trav, transport>>
HttpGet ==
    /\ HttpGetAgent(NumHttpIds)
    /\ UNCHANGED <<threads, trav, transport>>
HttpUpdate ==
    /\ HttpUpdateAgent(NumHttpIds, HttpUpdateBodies)
    /\ UNCHANGED <<threads, trav, transport>>
HttpRoutesCreate ==
    /\ RoutesCreateAgent(RoutesCreateRequests)
    /\ UNCHANGED <<files, threads, trav, sessions, active_connections, sockets>>
HttpRoutesGet ==
    /\ RoutesGetAgent(HttpNames)
    /\ UNCHANGED <<files, threads, trav, transport>>
HttpIndexGet ==
    /\ IndexGetAgent(HttpNames)
    /\ UNCHANGED <<files, threads, trav, transport>>

NextHttp ==
    \/ HttpCreate \/ HttpGet \/ HttpUpdate
    \/ HttpRoutesCreate \/ HttpRoutesGet \/ HttpIndexGet

SpecHttp == Init /\ [][NextHttp]_vars

\* -------- hierarchy fields on create and update
\* A config that asks for a parent and for every classification field, and
\* the updates that set them.
EdgeConfigs ==
    << [name |-> "alpha", parent_agent_id |-> Uuid(1),
        agent_type |-> "research", capabilities |-> <<"research">>,
        specializations |-> <<"research">>] >>
EdgeUpdates ==
    << [parent_agent_id |-> Uuid(1)],
       [capabilities |-> <<"research">>],
       [agent_type |-> "research"] >>
EdgeTasks == << "research" >>

EdgeCreate ==
    /\ CreateAgent(NumEdgeIds, EdgeConfigs)
    /\ UNCHANGED <<threads, trav, transport>>
EdgeUpdate ==
    /\ UpdateAgent(NumEdgeIds, EdgeUpdates)
    /\ UNCHANGED <<threads, trav, transport>>
EdgeFind ==
    /\ FindDelegationChainCall(NumEdgeIds, EdgeTasks)
    /\ UNCHANGED <<threads, trav, transport>>

NextEdges == EdgeCreate \/ EdgeUpdate \/ EdgeFind

SpecEdges == Init /\ [][NextEdges]_vars

\* -------- orchestrator: run_agent and run_parallel
\* What a registered runner does with a message: it raises, or it yields the
\* events given, each the text of its content ("" for an event without one).
RunnerBehaviours ==
    { [raises |-> TRUE, events |-> <<>>],
      [raises |-> FALSE, events |-> <<>>],
      [raises |-> FALSE, events |-> <<"", "hi">>] }

\* _extract_response: the text of the last event that has content.
RECURSIVE ExtractResponse(_, _)
ExtractResponse(events, i) ==
    IF i = 0 THEN ""
    ELSE IF events[i] # "" THEN events[i]
    ELSE ExtractResponse(events, i - 1)

\* run_agent
RunAgent(rs, agent_name, message, behaviour) ==
    IF agent_name \notin DOMAIN rs THEN Raise("ValueError")
    ELSE IF behaviour.raises THEN Raise("RunnerError")
    ELSE Return([agent |-> agent_name,
                 session_id |-> "session",
                 events |-> behaviour.events,
                 response |-> ExtractResponse(behaviour.events,
                                              Len(behaviour.events))])

\* asyncio.gather without return_exceptions: the first failure propagates.
GatherPropagating(tasks) ==
    IF \E i \in DOMAIN tasks : ~tasks[i].ok
    THEN Raise(tasks[CHOOSE i \in DOMAIN tasks :
                        /\ ~tasks[i].ok
                        /\ \A j \in 1..(i - 1) : tasks[j].ok].err)
    ELSE Return(tasks)

\* asyncio.gather(*tasks, return_exceptions=True): the outcomes in the order
\* of the tasks, an exception standing as the outcome of its task.
Gather(tasks) == Return(tasks)

\* dict(zip(keys, results))
DictZip(keys, results) ==
    [k \in {keys[i] : i \in DOMAIN keys} |->
        results[CHOOSE i \in DOMAIN keys :
                   /\ keys[i] = k
                   /\ \A j \in DOMAIN keys : keys[j] = k => j <= i]]

\* run_parallel over the items of agent_messages, behaviours[i] being what
\* the runner of the i-th item does.
RunParallel(rs, agent_messages, behaviours) ==
    LET tasks == [i \in DOMAIN agent_messages |->
                     RunAgent(rs, agent_messages[i][1], agent_messages[i][2],
                              behaviours[i])]
        results == Gather(tasks)
    IN  IF results.ok
        THEN Return(DictZip([i \in DOMAIN agent_messages |->
                                agent_messages[i][1]], results.val))
        ELSE results

\* POST /agents/parallel (routes.py)
RoutesRunParallel(requests) ==
    \E agent_messages \in requests :
        \E behaviours \in [DOMAIN agent_messages -> RunnerBehaviours] :
            LET results == RunParallel(runners, agent_messages, behaviours)
            IN  result' = IF results.ok
                          THEN Response("POST /agents/parallel", behaviours,
                                        agent_messages, 200, results.val)
                          ELSE Response("POST /agents/parallel", behaviours,
                                        agent_messages, 500, results.err)

OrchNames == {"assistant", "coder", "ghost"}
OrchCreateRequests ==
    << [name |-> "assistant", description |-> "General tasks",
        instruction |-> "Help.", model |-> "gemini-2.5-flash"],
       [name |-> "coder", description |-> "Writes code",
        instruction |-> "Code.", model |-> "gemini-2.5-flash"] >>

\* The bodies of POST /agents/parallel: a JSON object, its names distinct, in
\* every order.
ParallelRequests ==
    { <<<<a, "hello">>>> : a \in OrchNames }
    \cup { <<<<pair[1], "hello">>, <<pair[2], "hello">>>> :
             pair \in {q \in OrchNames \X OrchNames : q[1] # q[2]} }
    \cup { <<<<"ghost", "hello">>, <<"assistant", "hello">>,
             <<"coder", "hello">>>>,
           <<<<"assistant", "hello">>, <<"ghost", "hello">>,
             <<"coder", "hello">>>> }

OrchRegister ==
    /\ RoutesCreateAgent(OrchCreateRequests)
    /\ UNCHANGED <<files, threads, trav, sessions, active_connections, sockets>>
OrchGet ==
    /\ RoutesGetAgent(OrchNames)
    /\ UNCHANGED <<files, threads, trav, transport>>
OrchRunParallel ==
    /\ RoutesRunParallel(ParallelRequests)
    /\ UNCHANGED <<files, threads, trav, transport>>

NextOrch == OrchRegister \/ OrchGet \/ OrchRunParallel

SpecOrch == Init /\ [][NextOrch]_vars

\* -------- runtime: sessions, generate and the /ws/{agent_id} handler
\* str.split(sep)
SplitFrom[str \in STRING, sep \in STRING, start \in Nat, i \in Nat] ==
    IF i + Len(sep) - 1 > Len(str) THEN << SubSeq(str, start, Len(str)) >>
    ELSE IF SubSeq(str, i, i + Len(sep) - 1) = sep
         THEN << SubSeq(str, start, i - 1) >>
              \o SplitFrom[str, sep, i + Len(sep), i + Len(sep)]
         ELSE SplitFrom[str, sep, start, i + 1]
Split(str, sep) == SplitFrom[str, sep, 1, 1]

\* str.strip()
LStrip[str \in STRING] ==
    IF Len(str) > 0 /\ SubSeq(str, 1, 1) = " "
    THEN LStrip[SubSeq(str, 2, Len(str))] ELSE str
RStrip[str \in STRING] ==
    IF Len(str) > 0 /\ SubSeq(str, Len(str), Len(str)) = " "
    THEN RStrip[SubSeq(str, 1, Len(str) - 1)] ELSE str
Strip(str) == RStrip[LStrip[str]]

\* str[::-1]
Reverse[str \in STRING] ==
    IF Len(str) = 0 THEN ""
    ELSE Reverse[SubSeq(str, 2, Len(str))] \o SubSeq(str, 1, 1)

\* _offline_response yielding no chunk.
OfflineResponseSilent(config, user_input) == <<>>

\* _offline_response: the chunks it yields.
OfflineResponse(config, user_input) ==
    LET prompt == DictGet(config, "system_prompt", "")
        system_hint == Strip(IF prompt # "" THEN prompt
                             ELSE "You are a helpful assistant.")
        first_sentence == Strip(Split(system_hint, ". ")[1])
        intro == IF first_sentence # "" THEN first_sentence
                 ELSE "I'm ready to help."
        response == "[" \o DictGet(config, "name", "Agent") \o "] " \o intro
                    \o " Here is a short reply to '" \o user_input \o "': "
                    \o Reverse[user_input]
        words == Split(response, " ")
    IN  [i \in DOMAIN words |-> words[i] \o " "]

\* _can_use_sdk is false ("unusable"), or it is true and the SDK returns a
\* final output, raises while the Agent is built, or raises in the run.
SdkModes == {"unusable", "returns", "raises early", "raises"}
\* str(result.final_output)
SdkOutput == "final"

SessionKey(agent_id, session_id) == <<agent_id, session_id>>

\* _get_session when the SDK is usable: the sessions after the call.  A
\* session holds the turns run in it.
GetSession(ss, agent_id, session_id) ==
    LET key == SessionKey(agent_id, session_id)
    IN  IF key \in DOMAIN ss THEN ss
        ELSE [k \in (DOMAIN ss) \cup {key} |->
                 IF k = key
                 THEN [name |-> agent_id \o ":" \o session_id, turns |-> 0]
                 ELSE ss[k]]

\* Runner.run_sync(agent, user_input, session=session) returning.
RunSync(ss, agent_id, session_id) ==
    LET key == SessionKey(agent_id, session_id)
    IN  [ss EXCEPT ![key].turns = @ + 1]

\* close_session deleting the sessions of an agent id.
CloseSessionByAgent(ss, session_id) ==
    [k \in {key \in DOMAIN ss : key[1] # session_id} |-> ss[k]]

\* close_session
CloseSession(ss, session_id) ==
    [k \in {key \in DOMAIN ss : key[2] # session_id} |-> ss[k]]

\* What a generate call did: whether it ended without an exception, the
\* exception, the chunks it yielded, and the sessions after it.
GenOutcome(ok, err, chunks, ss) ==
    [ok |-> ok, err |-> err, chunks |-> chunks, sessions |-> ss]

\* generate letting the exception of the SDK through.
OnSdkErrorPropagates(err, config, user_input, ss) ==
    GenOutcome(FALSE, err, <<>>, ss)

\* generate, lines 57-61: the SDK's exception is caught and the offline
\* response follows.
OnSdkError(err, config, user_input, ss) ==
    GenOutcome(TRUE, "", OfflineResponse(config, user_input), ss)

\* generate
Generate(fs, ss, agent_id, user_input, session_id, sdk) ==
    LET got == GetAgent(fs, agent_id)
        config == got.val
    IN  IF ~got.ok THEN GenOutcome(FALSE, got.err, <<>>, ss)
        ELSE IF sdk = "unusable"
        THEN GenOutcome(TRUE, "", OfflineResponse(config, user_input), ss)
        ELSE IF sdk = "raises early"
        THEN OnSdkError("SdkError", config, user_input, ss)
        ELSE LET held == GetSession(ss, config.id, session_id)
             IN  IF sdk = "raises"
                 THEN OnSdkError("SdkError", config, user_input, held)
                 ELSE GenOutcome(TRUE, "", << SdkOutput >>,
                                 RunSync(held, config.id, session_id))

Sockets == {"w1", "w2"}
\* f"ws-{id(ws)}"
SessionId(ws) == "ws-" \o ws
DirectSession == "direct"

GenerateResult(agent_id, user_input, sdk, g) ==
    [op |-> "generate", arg |-> agent_id, input |-> user_input, sdk |-> sdk,
     out |-> [ok |-> g.ok, err |-> g.err, chunks |-> g.chunks]]
SocketResult(ws) == [op |-> "chat_socket", arg |-> None, out |-> Return(None)]

\* The handler of a connection after ws.accept().
Connected(agent_id, pc, peer) ==
    [pc |-> pc, agent_id |-> agent_id, peer |-> peer, inbox |-> <<>>,
     chunks |-> <<>>, part |-> 0, asked |-> 0, answered |-> 0, exit |-> ""]

\* The handler has ended with `exit`; the connection is over.
Ended(socket, exit) ==
    [socket EXCEPT !.pc = "closed", !.peer = "gone", !.chunks = <<>>,
                   !.part = 0, !.exit = exit]

\* chat_socket, lines 89-96: accept, then look the agent up.
ChatAccept(connections, n) ==
    \E ws \in connections \ DOMAIN sockets, i \in 1..n :
        LET agent_id == Uuid(i)
            got == GetAgent(files, agent_id)
            socket == IF got.ok THEN Connected(agent_id, "receiving", "open")
                      ELSE Ended(Connected(agent_id, "accepted", "open"),
                                 "4404")
        IN  /\ sockets' = [k \in (DOMAIN sockets) \cup {ws} |->
                              IF k = ws THEN socket ELSE sockets[k]]
            /\ result' = SocketResult(ws)
            /\ UNCHANGED <<files, sessions>>

\* The client sends a text message.
ClientSend(inputs) ==
    \E ws \in DOMAIN sockets, user_msg \in inputs :
        /\ sockets[ws].peer = "open"
        /\ sockets[ws].asked < MaxMessages
        /\ sockets' = [sockets EXCEPT ![ws].inbox = Append(@, user_msg),
                                      ![ws].asked = @ + 1]
        /\ result' = SocketResult(ws)
        /\ UNCHANGED <<files, sessions>>

\* The client closes the connection.
ClientDisconnect ==
    \E ws \in DOMAIN sockets :
        /\ sockets[ws].peer = "open"
        /\ sockets' = [sockets EXCEPT ![ws].peer = "gone"]
        /\ result' = SocketResult(ws)
        /\ UNCHANGED <<files, sessions>>

\* chat_socket, lines 100-101 up to the first chunk: receive_text, then
\* generate; or receive_text raising WebSocketDisconnect.
ChatReceive(ws) ==
    /\ ws \in DOMAIN sockets
    /\ sockets[ws].pc = "receiving"
    /\ UNCHANGED files
    /\ IF sockets[ws].inbox # <<>>
       THEN \E sdk \in SdkModes :
            \E g \in {Generate(files, sessions, sockets[ws].agent_id,
                                Head(sockets[ws].inbox), SessionId(ws), sdk)} :
              LET took == [sockets[ws] EXCEPT !.inbox = Tail(@), !.part = 0]
              IN  /\ result' = SocketResult(ws)
                  /\ IF g.ok /\ g.chunks # <<>>
                     THEN /\ sockets' = [sockets EXCEPT ![ws] =
                                 [took EXCEPT !.pc = "sending",
                                              !.chunks = g.chunks]]
                          /\ sessions' = g.sessions
                     ELSE IF g.ok
                     THEN /\ sockets' = [sockets EXCEPT ![ws] = took]
                          /\ sessions' = g.sessions
                     ELSE /\ sockets' = [sockets EXCEPT ![ws] =
                                 Ended(took, IF g.err = "FileNotFoundError"
                                             THEN "4404" ELSE g.err)]
                          /\ sessions' = CloseSession(g.sessions,
                                                      SessionId(ws))
       ELSE /\ sockets[ws].peer = "gone"
            /\ sockets' = [sockets EXCEPT ![ws] =
                              Ended(@, "WebSocketDisconnect")]
            /\ sessions' = CloseSession(sessions, SessionId(ws))
            /\ result' = SocketResult(ws)

\* chat_socket, line 102: send_text of the next chunk.  The send to a client
\* that has gone raises, WebSocketDisconnect or another exception.
ChatSend(ws) ==
    /\ ws \in DOMAIN sockets
    /\ sockets[ws].pc = "sending"
    /\ result' = SocketResult(ws)
    /\ UNCHANGED files
    /\ IF sockets[ws].peer = "gone"
       THEN \E exc \in {"WebSocketDisconnect", "RuntimeError"} :
              /\ sockets' = [sockets EXCEPT ![ws] = Ended(@, exc)]
              /\ sessions' = CloseSession(sessions, SessionId(ws))
       ELSE /\ sockets' = [sockets EXCEPT
                  ![ws].chunks = Tail(@),
                  ![ws].part = @ + 1,
                  ![ws].answered = IF sockets[ws].part = 0 THEN @ + 1 ELSE @,
                  ![ws].pc = IF Len(sockets[ws].chunks) = 1
                             THEN "receiving" ELSE "sending"]
            /\ UNCHANGED sessions

\* generate called outside a socket and read to its end.
GenerateCall(n, inputs) ==
    \E i \in 1..n, user_input \in inputs, sdk \in SdkModes :
        LET agent_id == Uuid(i)
            key == SessionKey(agent_id, DirectSession)
        IN  \E g \in {Generate(files, sessions, agent_id, user_input,
                                DirectSession, sdk)} :
            /\ key \in DOMAIN sessions => sessions[key].turns < MaxTurns
            /\ result' = GenerateResult(agent_id, user_input, sdk, g)
            /\ sessions' = g.sessions
            /\ UNCHANGED <<files, sockets>>

\* close_session called for the session of the direct calls.
CloseSessionCall ==
    /\ sessions' = CloseSession(sessions, DirectSession)
    /\ result' = [op |-> "close_session", arg |-> DirectSession,
                  out |-> Return(None)]
    /\ UNCHANGED <<files, sockets>>

GenConfigs ==
    << EmptyDict, [name |-> "alpha", system_prompt |-> "Be brief. Be kind."] >>
GenUpdates == << [system_prompt |-> " "], [system_prompt |-> ""] >>
GenInputs == {"", "hi", "a b"}

GenCreate ==
    /\ CreateAgent(NumGenIds, GenConfigs)
    /\ UNCHANGED <<threads, trav, transport>>
GenUpdate ==
    /\ UpdateAgent(NumGenIds, GenUpdates)
    /\ UNCHANGED <<threads, trav, transport>>
GenGenerate ==
    /\ GenerateCall(NumGenIds, GenInputs)
    /\ UNCHANGED <<threads, trav, active_connections, runners>>

GenClose ==
    /\ CloseSessionCall
    /\ UNCHANGED <<threads, trav, active_connections, runners>>

NextGen == GenCreate \/ GenUpdate \/ GenGenerate \/ GenClose

SpecGen == Init /\ [][NextGen]_vars

ChatConfigs == << [name |-> "alpha", system_prompt |-> "Hi. Be kind."] >>
ChatInputs == {"hi"}

ChatCreate ==
    /\ CreateAgent(NumChatIds, ChatConfigs)
    /\ UNCHANGED <<threads, trav, sessions, active_connections, runners,
                   sockets>>
ChatConnect ==
    /\ ChatAccept(Sockets, NumChatIds)
    /\ UNCHANGED <<threads, trav, active_connections, runners>>
ChatClientSend ==
    /\ ClientSend(ChatInputs)
    /\ UNCHANGED <<threads, trav, active_connections, runners>>
ChatClientDisconnect ==
    /\ ClientDisconnect
    /\ UNCHANGED <<threads, trav, active_connections, runners>>
ChatHandlerReceive ==
    \E ws \in Sockets :
        /\ ChatReceive(ws)
        /\ UNCHANGED <<threads, trav, active_connections, runners>>
ChatHandlerSend ==
    \E ws \in Sockets :
        /\ ChatSend(ws)
        /\ UNCHANGED <<threads, trav, active_connections, runners>>
NextChat ==
    \/ ChatCreate \/ ChatConnect
    \/ ChatClientSend \/ ChatClientDisconnect
    \/ ChatHandlerReceive \/ ChatHandlerSend

SpecChat == Init /\ [][NextChat]_vars

\* One connection, for the replies it is owed.
LiveSockets == {"w1"}

\* The event loop runs every handler that can take a step.
ChatFairness ==
    \A ws \in LiveSockets :
        /\ WF_vars(ChatReceive(ws)
                   /\ UNCHANGED <<threads, trav, active_connections, runners>>)
        /\ WF_vars(ChatSend(ws)
                   /\ UNCHANGED <<threads, trav, active_connections, runners>>)

LiveConfigs == << EmptyDict, [name |-> "alpha", system_prompt |-> " "] >>
LiveInputs == {"hi", ""}

LiveCreate ==
    /\ CreateAgent(NumChatIds, LiveConfigs)
    /\ UNCHANGED <<threads, trav, sessions, active_connections, runners,
                   sockets>>
LiveConnect ==
    /\ ChatAccept(LiveSockets, NumChatIds)
    /\ UNCHANGED <<threads, trav, active_connections, runners>>
LiveClientSend ==
    /\ ClientSend(LiveInputs)
    /\ UNCHANGED <<threads, trav, active_connections, runners>>

NextChatLive ==
    \/ LiveCreate \/ LiveConnect
    \/ LiveClientSend \/ ChatClientDisconnect
    \/ ChatHandlerReceive \/ ChatHandlerSend

SpecChatLive == Init /\ [][NextChatLive]_vars /\ ChatFairness

\* -------- websocket.py: WebSocketManager, websocket_endpoint, handle_chat
\* WebSocketManager.connect after the accept
ManagerConnect(conns, websocket, user_id) ==
    [u \in (DOMAIN conns) \cup {user_id} |->
        IF u = user_id
        THEN (IF u \in DOMAIN conns THEN conns[u] ELSE {}) \cup {websocket}
        ELSE conns[u]]

\* WebSocketManager.disconnect
ManagerDisconnect(conns, websocket, user_id) ==
    IF user_id \notin DOMAIN conns THEN conns
    ELSE IF conns[user_id] \ {websocket} = {}
    THEN [u \in (DOMAIN conns) \ {user_id} |-> conns[u]]
    ELSE [conns EXCEPT ![user_id] = @ \ {websocket}]

\* The texts a client sends: a chat message for an agent, a ping, and a text
\* that is not JSON.
WsTexts ==
    { [json |-> TRUE, type |-> "chat", agent |-> "assistant"],
      [json |-> TRUE, type |-> "chat", agent |-> "ghost"],
      [json |-> TRUE, type |-> "ping", agent |-> ""],
      [json |-> FALSE, type |-> "", agent |-> ""] }

\* json.loads(data)
JsonLoads(data) ==
    IF data.json THEN Return([type |-> data.type, agent |-> data.agent])
    ELSE Raise("JSONDecodeError")

\* What send_text raises when the client has gone.
SendErrors == {"WebSocketDisconnect", "RuntimeError"}

WsUsers == {"u1"}

\* The handler of a connection after manager.connect.
WsConnected(user_id) ==
    [pc |-> "receiving", user_id |-> user_id, peer |-> "open",
     inbox |-> <<>>, asked |-> 0, agent |-> "", found |-> FALSE,
     log |-> <<>>, events |-> 0, run |-> "", exit |-> "",
     disconnects |-> FALSE]

\* handle_chat finishing the run in place of its except clause.
HandleChatCompletes(pc, found, outcome) ==
    IF outcome = "raised"
    THEN (IF pc = "failing chat" THEN "raise" ELSE "complete")
    ELSE IF pc = "ack" THEN (IF found THEN "session" ELSE "not found")
    ELSE IF pc = "not found" THEN "return"
    ELSE IF pc = "session" THEN "streaming"
    ELSE IF pc = "streaming"
         THEN (IF outcome = "event" THEN "event" ELSE "complete")
    ELSE IF pc = "event" THEN "streaming"
    ELSE "return"

\* handle_chat: where it goes from pc.  The outcome is "sent" for a send_text
\* that returned, "event" and "finished" for the next item of run_async, and
\* "raised" for an exception of either.
HandleChat(pc, found, outcome) ==
    IF outcome = "raised"
    THEN (IF pc \in {"ack", "failing chat"} THEN "raise" ELSE "failing chat")
    ELSE IF pc = "ack" THEN (IF found THEN "session" ELSE "not found")
    ELSE IF pc = "not found" THEN "return"
    ELSE IF pc = "session" THEN "streaming"
    ELSE IF pc = "streaming"
         THEN (IF outcome = "event" THEN "event" ELSE "complete")
    ELSE IF pc = "event" THEN "streaming"
    ELSE "return"

\* The message handle_chat sends at pc.
ChatMessage(pc) ==
    IF pc \in {"not found", "failing chat"} THEN "error" ELSE pc

ChatPcs == {"ack", "not found", "session", "event", "complete", "failing chat"}

\* websocket_endpoint, line 60: manager.connect
WsAccept(connections, users) ==
    \E ws \in connections \ DOMAIN sockets, user_id \in users :
        /\ sockets' = [k \in (DOMAIN sockets) \cup {ws} |->
                          IF k = ws THEN WsConnected(user_id) ELSE sockets[k]]
        /\ active_connections' =
               ManagerConnect(active_connections, ws, user_id)
        /\ result' = SocketResult(ws)
        /\ UNCHANGED <<files, sessions, runners>>

\* The client sends a text; the handler reads one text at a time, and the
\* next one is modelled as arriving when the one before has been taken.
WsClientSend(texts) ==
    \E ws \in DOMAIN sockets, data \in texts :
        /\ sockets[ws].peer = "open"
        /\ sockets[ws].pc # "closed"
        /\ sockets[ws].inbox = <<>>
        /\ sockets[ws].asked < MaxWsMessages
        /\ sockets' = [sockets EXCEPT ![ws].inbox = << data >>,
                                      ![ws].asked = @ + 1]
        /\ result' = SocketResult(ws)
        /\ UNCHANGED <<files, sessions, runners, active_connections>>

\* The client closes the connection.
WsClientDisconnect ==
    \E ws \in DOMAIN sockets :
        /\ sockets[ws].peer = "open"
        /\ sockets[ws].pc # "closed"
        /\ sockets' = [sockets EXCEPT ![ws].peer = "gone"]
        /\ result' = SocketResult(ws)
        /\ UNCHANGED <<files, sessions, runners, active_connections>>

\* The handler leaves websocket_endpoint with the exception exc raised in
\* its loop: the except clauses of lines 75-82.
WsRaise(socket, exc) ==
    IF exc = "WebSocketDisconnect"
    THEN [socket EXCEPT !.pc = "closed", !.peer = "gone", !.exit = exc,
                        !.disconnects = TRUE]
    ELSE [socket EXCEPT !.pc = "failing", !.exit = exc]

\* A step of the handler of ws that leaves it as `next`; the step that ends
\* the handler through manager.disconnect removes the connection.
WsStep(ws, next) ==
    /\ sockets' = [sockets EXCEPT ![ws] = next]
    /\ active_connections' =
           IF next.pc = "closed" /\ next.disconnects
           THEN ManagerDisconnect(active_connections, ws, next.user_id)
           ELSE active_connections

\* websocket_endpoint, lines 64-67 and 75-76: receive_text, json.loads and
\* the branch on the type, up to the next await.
WsReceive(ws) ==
    /\ ws \in DOMAIN sockets
    /\ sockets[ws].pc = "receiving"
    /\ result' = SocketResult(ws)
    /\ UNCHANGED <<files, sessions, runners>>
    /\ IF sockets[ws].inbox # <<>>
       THEN LET message == JsonLoads(Head(sockets[ws].inbox))
                took == [sockets[ws] EXCEPT !.inbox = <<>>]
            IN  WsStep(ws,
                    IF ~message.ok THEN WsRaise(took, message.err)
                    ELSE IF message.val.type = "chat"
                    THEN [took EXCEPT !.pc = "ack",
                                      !.agent = message.val.agent,
                                      !.found = FALSE, !.log = <<>>,
                                      !.events = 0, !.run = ""]
                    ELSE [took EXCEPT !.pc = "pong"])
       ELSE /\ sockets[ws].peer = "gone"
            /\ WsStep(ws, WsRaise(sockets[ws], "WebSocketDisconnect"))

\* websocket_endpoint, lines 69-73 and 77-82: the send_text of the pong, and
\* the send_text of the error in `except Exception`, which is followed by
\* manager.disconnect when it returns and by nothing when it raises.
WsSend(ws) ==
    /\ ws \in DOMAIN sockets
    /\ sockets[ws].pc \in {"pong", "failing"}
    /\ result' = SocketResult(ws)
    /\ UNCHANGED <<files, sessions, runners>>
    /\ IF sockets[ws].peer = "gone"
       THEN \E exc \in SendErrors :
              WsStep(ws, IF sockets[ws].pc = "failing"
                         THEN [sockets[ws] EXCEPT !.pc = "closed",
                                                  !.exit = exc]
                         ELSE WsRaise(sockets[ws], exc))
       ELSE WsStep(ws, IF sockets[ws].pc = "failing"
                       THEN [sockets[ws] EXCEPT !.pc = "closed",
                                                !.peer = "gone",
                                                !.disconnects = TRUE]
                       ELSE [sockets[ws] EXCEPT !.pc = "receiving"])

\* handle_chat: one send_text, and what follows it up to the next await.
\* The sent messages of the chat are kept in log.
WsChatSend(ws) ==
    /\ ws \in DOMAIN sockets
    /\ sockets[ws].pc \in ChatPcs
    /\ result' = SocketResult(ws)
    /\ UNCHANGED <<files, sessions, runners>>
    /\ LET socket == sockets[ws]
           found == IF socket.pc = "ack" THEN socket.agent \in DOMAIN runners
                    ELSE socket.found
       IN  IF socket.peer = "gone"
           THEN \E exc \in SendErrors :
                  LET next == HandleChat(socket.pc, found, "raised")
                  IN  WsStep(ws,
                          IF next = "raise"
                          THEN WsRaise([socket EXCEPT !.found = found], exc)
                          ELSE [socket EXCEPT !.pc = next, !.found = found])
           ELSE LET next == HandleChat(socket.pc, found, "sent")
                    sent == [socket EXCEPT
                                !.log = Append(@, ChatMessage(socket.pc)),
                                !.found = found]
                IN  WsStep(ws, [sent EXCEPT !.pc = IF next = "return"
                                                   THEN "receiving" ELSE next])

\* handle_chat, line 125: the next item of runner.run_async.
WsRun(ws) ==
    /\ ws \in DOMAIN sockets
    /\ sockets[ws].pc = "streaming"
    /\ result' = SocketResult(ws)
    /\ UNCHANGED <<files, sessions, runners>>
    /\ \E outcome \in {"event", "finished", "raised"} :
          /\ outcome = "event" => sockets[ws].events < MaxEvents
          /\ WsStep(ws, [sockets[ws] EXCEPT
                 !.pc = HandleChat("streaming", sockets[ws].found, outcome),
                 !.events = IF outcome = "event" THEN @ + 1 ELSE @,
                 !.run = IF outcome = "event" THEN @ ELSE outcome])

WsSockets == {"w1", "w2"}

WsRegister ==
    /\ RoutesCreateAgent(RoutesCreateRequests)
    /\ UNCHANGED <<files, threads, trav, sessions, active_connections, sockets>>
WsConnect ==
    /\ WsAccept(WsSockets, WsUsers)
    /\ UNCHANGED <<threads, trav>>
WsClientSends ==
    /\ WsClientSend(WsTexts)
    /\ UNCHANGED <<threads, trav>>
WsClientLeaves ==
    /\ WsClientDisconnect
    /\ UNCHANGED <<threads, trav>>
WsHandlerReceive ==
    \E ws \in WsSockets : WsReceive(ws) /\ UNCHANGED <<threads, trav>>
WsHandlerSend ==
    \E ws \in WsSockets : WsSend(ws) /\ UNCHANGED <<threads, trav>>
WsHandlerChatSend ==
    \E ws \in WsSockets : WsChatSend(ws) /\ UNCHANGED <<threads, trav>>
WsHandlerRun ==
    \E ws \in WsSockets : WsRun(ws) /\ UNCHANGED <<threads, trav>>

NextWs ==
    \/ WsRegister \/ WsConnect \/ WsClientSends \/ WsClientLeaves
    \/ WsHandlerReceive \/ WsHandlerSend
    \/ WsHandlerChatSend \/ WsHandlerRun

SpecWs == Init /\ [][NextWs]_vars

\* ============================================================= properties
\* What the store holds, read straight from the files.
Exists(agent_id) == AgentPath(agent_id) \in DOMAIN files
Record(agent_id) == files[AgentPath(agent_id)]
StoredIds == {files[p].id : p \in DOMAIN files}
ParentOf(agent_id) == DictGet(Record(agent_id), "parent_agent_id", None)
ChildIds(agent_id) == {c \in StoredIds : ParentOf(c) = agent_id}
Range(list) == {list[i] : i \in DOMAIN list}

\* Some record is its own ancestor along the parent links.
RECURSIVE ReachesUp(_, _, _)
ReachesUp(cur, target, fuel) ==
    IF fuel = 0 \/ cur \notin StoredIds THEN FALSE
    ELSE cur = target \/ ReachesUp(ParentOf(cur), target, fuel - 1)
HasCycle ==
    \E a \in StoredIds : ReachesUp(ParentOf(a), a, Cardinality(StoredIds))

\* The ids reachable from a set of ids through child links.
RECURSIVE Descendants(_)
Descendants(S) ==
    LET T == S \cup {c \in StoredIds : ParentOf(c) \in S}
    IN  IF T = S THEN S ELSE Descendants(T)

\* The matching rule as the specification words it.
SpecMatches(task_type, r) ==
    \/ "agent_type" \in DOMAIN r /\ r.agent_type = task_type
    \/ "capabilities" \in DOMAIN r /\ task_type \in Range(r.capabilities)
    \/ "specializations" \in DOMAIN r /\ task_type \in Range(r.specializations)

\* ------------------------------------------------------------- C1
\* C1: create-then-get round trip.  A get_agent of the id that the call just
\* before it, a create_agent, returned, returns a record equal to the record
\* that create_agent returned.
C1_CreateThenGet ==
    (result.op = "get" /\ result.created.ok)
        => (result.out.ok /\ result.out.val = result.created.val)

\* A get right after the create of a record with a caller-supplied name.
C1_Witness ==
    /\ result.op = "get"
    /\ result.created.ok
    /\ result.out.ok
    /\ result.out.val.name = "alpha"
    /\ result.out.val.tools = <<"search">>

\* ------------------------------------------------------------- C2
\* C2: update preserves id.  Every successful update_agent(R.id, U), also one
\* whose U carries an "id" key, returns a record whose id is R.id and leaves
\* such a record in R's file.
C2_UpdatePreservesId ==
    (result.op = "update" /\ result.out.ok)
        => /\ result.out.val.id = result.arg
           /\ Exists(result.arg)
           /\ Record(result.arg).id = result.arg

\* An update that tried to set another id went through.
C2_Witness ==
    /\ result.op = "update"
    /\ result.out.ok
    /\ "id" \in DOMAIN result.updates
    /\ result.updates.id # result.arg
    /\ result.out.val.model = "gpt-4.1"

\* ------------------------------------------------------------- C4
\* A tree in which no branch is expanded below an id that is already on the
\* path from the root to it.
RECURSIVE StopsAtRepeat(_, _)
StopsAtRepeat(t, path) ==
    IF InList(t.id, path) THEN t.children = <<>>
    ELSE \A i \in DOMAIN t.children :
             StopsAtRepeat(t.children[i], Append(path, t.id))

\* C4: cycle safety of tree building.  When the parent links contain a cycle,
\* get_agent_tree on an existing root returns (raises nothing), and the tree
\* it returns stops each branch where an id on the current path reappears.
C4_CycleSafeTree ==
    (result.op = "tree" /\ Exists(result.arg) /\ HasCycle)
        => (result.out.ok /\ StopsAtRepeat(result.out.val, <<>>))

\* C4, what the code does: with a cycle below the root the recursion has no
\* end and the call leaves with RecursionError.
C4_CycleRaises ==
    (result.op = "tree" /\ Exists(result.arg)
        /\ \E d \in Descendants({result.arg}) :
               ReachesUp(ParentOf(d), d, Cardinality(StoredIds)))
        => (~result.out.ok /\ result.out.err = "RecursionError")

\* ------------------------------------------------------------- C5
\* C5: find_delegation_chain terminates on malformed parent links.  Every
\* call, for every store and every task type, returns a chain.
C5_ChainTerminates ==
    result.op = "chain" => result.out.ok

\* ------------------------------------------------------------- C6
\* A tree node that carries its record's fields and whose children are the
\* nodes of exactly the records that name it as parent, each once, and so on
\* below.
RECURSIVE TreeCorrect(_)
TreeCorrect(t) ==
    /\ Exists(t.id)
    /\ t.name = Record(t.id).name
    /\ t.model = Record(t.id).model
    /\ t.system_prompt = Record(t.id).system_prompt
    /\ t.tools = Record(t.id).tools
    /\ Len(t.children) = Cardinality(ChildIds(t.id))
    /\ {t.children[i].id : i \in DOMAIN t.children} = ChildIds(t.id)
    /\ \A i \in DOMAIN t.children : TreeCorrect(t.children[i])

\* The store is a 3-level chain below a: b's parent is a, c's parent is b,
\* and no other record has a parent in the store.
IsChain3(a, b, c) ==
    /\ StoredIds = {a, b, c}
    /\ Cardinality({a, b, c}) = 3
    /\ ParentOf(b) = a
    /\ ParentOf(c) = b
    /\ ParentOf(a) \notin StoredIds

\* C6: tree building on acyclic hierarchies.  For an existing root the call
\* returns the root's node, whose children are exactly the nodes of the
\* records whose parent_agent_id is the node's id, recursively; on a 3-level
\* chain A, B, C it is A holding only B, B holding only C, C childless.
C6_TreeCorrectAcyclic ==
    (result.op = "tree" /\ Exists(result.arg) /\ ~HasCycle)
        => /\ result.out.ok
           /\ result.out.val.id = result.arg
           /\ TreeCorrect(result.out.val)
           /\ \A b, c \in StoredIds :
                  IsChain3(result.arg, b, c)
                      => LET t == result.out.val
                         IN  /\ Len(t.children) = 1
                             /\ t.children[1].id = b
                             /\ Len(t.children[1].children) = 1
                             /\ t.children[1].children[1].id = c
                             /\ t.children[1].children[1].children = <<>>

\* The tree of a 3-level chain has been built from its top.
C6_Witness ==
    /\ result.op = "tree"
    /\ result.out.ok
    /\ ~HasCycle
    /\ \E b, c \in StoredIds : IsChain3(result.arg, b, c)
    /\ Len(result.out.val.children) = 1
    /\ Len(result.out.val.children[1].children) = 1

\* ------------------------------------------------------------- C7
\* The ids of the children of a record, in the order they are enumerated.
OrderedChildIds(agent_id) ==
    LET paths == SelectSeq(IterAgentFiles(files),
                           LAMBDA p : DictGet(files[p], "parent_agent_id", None)
                                          = agent_id)
    IN  [i \in DOMAIN paths |-> files[paths[i]].id]

\* The path to the first matching record in pre-order depth-first order, with
\* the cycle guard the specification asks for: a child already on the current
\* path is not expanded.  The empty path when there is none.
RECURSIVE FirstFound(_, _, _)
RECURSIVE FirstAmong(_, _, _, _)
FirstFound(task_type, agent_id, path) ==
    LET here == Append(path, agent_id)
    IN  IF SpecMatches(task_type, Record(agent_id)) THEN here
        ELSE FirstAmong(task_type, OrderedChildIds(agent_id), 1, here)
FirstAmong(task_type, kids, i, here) ==
    IF i > Len(kids) THEN <<>>
    ELSE IF InList(kids[i], here) THEN FirstAmong(task_type, kids, i + 1, here)
    ELSE LET c == FirstFound(task_type, kids[i], here)
         IN  IF c # <<>> THEN c ELSE FirstAmong(task_type, kids, i + 1, here)

\* C7: delegation search is first-found in pre-order.  When the root does not
\* match and the search reaches a matching descendant, the call returns the
\* path from the root to the first one in the children's enumeration order.
C7_FirstFoundPreOrder ==
    (result.op = "chain" /\ Exists(result.arg)
        /\ ~SpecMatches(result.task, Record(result.arg))
        /\ FirstFound(result.task, result.arg, <<>>) # <<>>)
        => (result.out.ok
            /\ result.out.val = FirstFound(result.task, result.arg, <<>>))

\* C7, on hierarchies without a cycle: the returned chain is the first-found
\* path, also when a shorter path to a later sibling exists.
C7_FirstFoundAcyclic ==
    (result.op = "chain" /\ Exists(result.arg) /\ ~HasCycle)
        => (result.out.ok
            /\ result.out.val = FirstFound(result.task, result.arg, <<>>))

\* ------------------------------------------------------------- C8
\* C8: match precedence.  A record matches a task type when the task type is
\* its agent_type or is in its capabilities or in its specializations; when
\* the root matches, the chain is the root alone, whatever its descendants
\* are; when it does not, the chain is empty or ends in a record that matches.
C8_RootMatchFirst ==
    (result.op = "chain" /\ Exists(result.arg) /\ result.out.ok)
        => IF SpecMatches(result.task, Record(result.arg))
           THEN result.out.val = <<result.arg>>
           ELSE \/ result.out.val = <<>>
                \/ /\ Len(result.out.val) > 1
                   /\ result.out.val[1] = result.arg
                   /\ SpecMatches(result.task,
                                  Record(result.out.val[Len(result.out.val)]))

\* The root matched by its specializations only, and a child of it matched
\* too.
C8_Witness ==
    /\ result.op = "chain"
    /\ Exists(result.arg)
    /\ result.out.ok
    /\ result.out.val = <<result.arg>>
    /\ Record(result.arg).agent_type # result.task
    /\ result.task \notin Range(Record(result.arg).capabilities)
    /\ result.task \in Range(Record(result.arg).specializations)
    /\ \E c \in ChildIds(result.arg) :
           c # result.arg /\ SpecMatches(result.task, Record(c))

\* ------------------------------------------------------------- C9
\* C9: empty result on no match.  When the root exists and no record
\* reachable from it through child links matches, the call returns the empty
\* chain.
C9_EmptyOnNoMatch ==
    (result.op = "chain" /\ Exists(result.arg)
        /\ \A d \in Descendants({result.arg}) :
               ~SpecMatches(result.task, Record(d)))
        => (result.out.ok /\ result.out.val = <<>>)

\* ------------------------------------------------------------- C10
\* C10: unresolved root.  When root_agent_id names no record, the call
\* returns the empty chain and raises nothing, for every task type.
C10_UnresolvedRootEmpty ==
    (result.op = "chain" /\ ~Exists(result.arg))
        => (result.out.ok /\ result.out.val = <<>>)

\* A search from an id without a record, in a store where a record matches
\* the task type.
C10_Witness ==
    /\ result.op = "chain"
    /\ ~Exists(result.arg)
    /\ result.out.ok
    /\ result.out.val = <<>>
    /\ \E a \in StoredIds : SpecMatches(result.task, Record(a))

\* ------------------------------------------------------------- C11
\* C11: get_agent_tree fails with FileNotFoundError when the root names no
\* record, and for no other reason: on every existing root it returns a tree.
C11_OnlyUnresolvedRootFails ==
    result.op = "tree"
        => IF Exists(result.arg) THEN result.out.ok
           ELSE ~result.out.ok /\ result.out.err = "FileNotFoundError"

\* C11, the half the code keeps: an unresolved root raises FileNotFoundError.
C11_UnresolvedRootRaises ==
    (result.op = "tree" /\ ~Exists(result.arg))
        => (~result.out.ok /\ result.out.err = "FileNotFoundError")

\* ------------------------------------------------------------- C12
\* C12: get_agent on an id without a record raises FileNotFoundError, hands
\* out no record, and leaves every file as it was.
C12_GetNotFound ==
    [][(result'.op = "get" /\ AgentPath(result'.arg) \notin DOMAIN files)
          => /\ ~result'.out.ok
             /\ result'.out.err = "FileNotFoundError"
             /\ files' = files]_vars

\* A get of an id without a record, in a store that holds another record.
C12_Witness ==
    /\ result.op = "get"
    /\ ~Exists(result.arg)
    /\ ~result.out.ok
    /\ DOMAIN files # {}

\* ------------------------------------------------------------- C13
\* C13: update_agent on an id without a record raises FileNotFoundError and
\* writes nothing: no file appears and no file changes.
C13_UpdateNotFound ==
    [][(result'.op = "update" /\ AgentPath(result'.arg) \notin DOMAIN files)
          => /\ ~result'.out.ok
             /\ result'.out.err = "FileNotFoundError"
             /\ files' = files]_vars

\* An update of an id without a record, in a store that holds another record.
C13_Witness ==
    /\ result.op = "update"
    /\ ~Exists(result.arg)
    /\ ~result.out.ok
    /\ DOMAIN files # {}

\* ------------------------------------------------------------- C14
\* C14: update_agent merges only the supplied fields.  Every key of the
\* updates but "id" holds the supplied value afterwards, every other field of
\* the record keeps its value, no other file changes, and the merged record
\* is what the call returns.
C14_UpdateMergesSupplied ==
    [][(result'.op = "update" /\ result'.out.ok)
          => LET path == AgentPath(result'.arg)
                 given == (DOMAIN result'.updates) \ {"id"}
             IN  /\ path \in DOMAIN files
                 /\ DOMAIN files' = DOMAIN files
                 /\ DOMAIN files'[path] = (DOMAIN files[path]) \cup given
                 /\ \A k \in given : files'[path][k] = result'.updates[k]
                 /\ \A k \in (DOMAIN files[path]) \ given :
                        files'[path][k] = files[path][k]
                 /\ \A p \in (DOMAIN files) \ {path} : files'[p] = files[p]
                 /\ result'.out.val = files'[path]]_vars

\* An update of the tools alone, with an id key, of a record created with
\* every field supplied, beside a second record.
C14_Witness ==
    /\ result.op = "update"
    /\ result.out.ok
    /\ DOMAIN result.updates = {"id", "tools"}
    /\ result.out.val.tools = <<>>
    /\ result.out.val.name = "alpha"
    /\ result.out.val.system_prompt = "Be brief."
    /\ Cardinality(DOMAIN files) = 2

\* ------------------------------------------------------------- C15
\* C15: create_agent has one side effect.  It adds one file, under an id that
\* no existing record has, and changes no existing file; a list_agents right
\* after it includes the created id.
C15_CreateAddsOne ==
    [][/\ result'.op = "create"
          => LET path == AgentPath(result'.arg)
             IN  /\ path \notin DOMAIN files
                 /\ \A p \in DOMAIN files : files[p].id # result'.arg
                 /\ DOMAIN files' = (DOMAIN files) \cup {path}
                 /\ \A p \in DOMAIN files : files'[p] = files[p]
                 /\ files'[path].id = result'.arg
       /\ (result'.op = "list" /\ result'.created.ok)
          => /\ files' = files
             /\ \E i \in DOMAIN result'.out.val :
                    result'.out.val[i].id = result'.created.val.id]_vars

\* A list right after the create of a second record.
C15_Witness ==
    /\ result.op = "list"
    /\ result.created.ok
    /\ Len(result.out.val) = 2

\* ------------------------------------------------------------- C16
\* C16: create_agent fills name, model, system_prompt and tools with their
\* defaults for exactly the fields the config lacks (the name from the first
\* eight characters of the new id), keeps each supplied one, and returns the
\* record it wrote.
C16_CreateDefaults ==
    result.op = "create"
        => LET c == result.config
               r == result.out.val
           IN  /\ result.out.ok
               /\ DOMAIN r = {"id", "name", "model", "system_prompt", "tools"}
               /\ r.id = result.arg
               /\ r.name = IF "name" \in DOMAIN c THEN c.name
                           ELSE "Agent " \o First8(result.arg)
               /\ r.model = IF "model" \in DOMAIN c THEN c.model
                            ELSE "gpt-4.1-mini"
               /\ r.system_prompt = IF "system_prompt" \in DOMAIN c
                                    THEN c.system_prompt
                                    ELSE "You are a helpful assistant."
               /\ r.tools = IF "tools" \in DOMAIN c THEN c.tools ELSE <<>>
               /\ Exists(result.arg)
               /\ Record(result.arg) = r

\* A create from a config that supplies the name and nothing else.
C16_Witness ==
    /\ result.op = "create"
    /\ DOMAIN result.config = {"name"}
    /\ result.out.val.name = "alpha"
    /\ result.out.val.model = "gpt-4.1-mini"

\* ------------------------------------------------------------- C17
\* C17: ids are unique and never reassigned.  After every create_agent and
\* update_agent each file holds the record whose id names the file, and a
\* record that was there keeps its id.
C17_IdUniqueAndFixed ==
    [][/\ \A p \in DOMAIN files' : p = files'[p].id \o ".json"
       /\ \A p \in DOMAIN files :
              p \in DOMAIN files' /\ files'[p].id = files[p].id]_vars

\* Two records whose ids share their first eight characters, after an update
\* that carried another record's id.
C17_Witness ==
    /\ result.op = "update"
    /\ result.out.ok
    /\ "id" \in DOMAIN result.updates
    /\ result.updates.id \in StoredIds \ {result.arg}
    /\ Cardinality(StoredIds) = 2

\* ------------------------------------------------------------- C18
\* Both update_agent calls have returned.
AllDone == \A t \in Threads : threads[t].pc = "done"

\* What update_agent(agent_id, updates) of thread t leaves in the record when
\* it runs alone on the store the threads started from.
Alone(t) ==
    MergeUpdates(CreatedStore(NumConcIds)[AgentPath(threads[t].agent_id)],
                 threads[t].updates, threads[t].agent_id)

\* C18: concurrent updates of different records do not interfere.  Whatever
\* the interleaving of their read and write steps, once both have returned
\* each succeeded, each record is the one its own update produces alone, and
\* no other file has changed.
C18_DifferentRecordsIndependent ==
    (AllDone /\ \A t, o \in Threads :
                    t # o => threads[t].agent_id # threads[o].agent_id)
        => /\ \A t \in Threads :
                 /\ threads[t].out.ok
                 /\ threads[t].out.val = Alone(t)
                 /\ files[AgentPath(threads[t].agent_id)] = JsonDump(Alone(t))
           /\ DOMAIN files = DOMAIN CreatedStore(NumConcIds)
           /\ \A p \in DOMAIN files :
                 (\A t \in Threads : p # AgentPath(threads[t].agent_id))
                     => files[p] = CreatedStore(NumConcIds)[p]

\* Two updates of different records have returned, and one of them began
\* while the other had its file open for writing.
C18_Witness ==
    /\ AllDone
    /\ threads["t1"].agent_id # threads["t2"].agent_id
    /\ \E t \in Threads : threads[t].overlap
    /\ \A t \in Threads : threads[t].out.ok

\* ------------------------------------------------------------- C19
\* C19: concurrent updates of one record: the last write wins.  Once both
\* have written and returned, the file holds exactly the record that the one
\* to write last wrote, which is the record of the latest return.
C19_LastWriteWins ==
    (AllDone /\ threads["t1"].agent_id = threads["t2"].agent_id
             /\ \A t \in Threads : threads[t].out.ok)
        => /\ IsJson(files[AgentPath(result.arg)])
           /\ files[AgentPath(result.arg)] = JsonDump(result.out.val)

\* C19, atomicity as the other update sees it: an update_agent of a record
\* that exists ends in success, never in an error about the file's text.
C19_UpdateSeesWholeRecord ==
    \A t \in Threads :
        threads[t].pc = "done" => threads[t].out.ok

\* ------------------------------------------------------------- C20
\* A get_agent_tree call returned a tree that is the tree of its root in no
\* state the store was in between the call's first read and its return.
Inconsistent ==
    /\ result.op = "walk"
    /\ result.out.ok
    /\ result.out.val \notin result.seen

C20_AloneIsGetAgentTree ==
    (result.op = "walk" /\ result.during = {}
        /\ (result.out.ok \/ result.out.err # "running"))
        => LET whole == GetAgentTree(files, result.arg)
           IN  /\ whole.ok = result.out.ok
               /\ whole.err = result.out.err
               /\ whole.ok => whole.val = result.out.val

\* ------------------------------------------------------------- C21
\* A request body with a malformed field: an empty or over-long name, an
\* empty model or system_prompt, an empty tool name, and, on create, no name.
Malformed(op, body) ==
    LET f == body.fields
    IN  \/ "name" \in DOMAIN f /\ (f.name = "" \/ Len(f.name) > 100)
        \/ "model" \in DOMAIN f /\ f.model = ""
        \/ "system_prompt" \in DOMAIN f /\ f.system_prompt = ""
        \/ "tools" \in DOMAIN f /\ InList("", f.tools)
        \/ op = "POST /agents" /\ "name" \notin DOMAIN f

\* C21: a create or update request with a malformed field is rejected with
\* a validation error (status 422) before any write: the store is unchanged.
C21_MalformedRejected ==
    [][(result'.op \in {"POST /agents", "PUT /agents/{agent_id}"}
          /\ Malformed(result'.op, result'.body))
          => (result'.status = 422 /\ files' = files)]_vars

\* A PUT with an empty name for a record that exists was rejected.
C21_Witness ==
    /\ result.op = "PUT /agents/{agent_id}"
    /\ Exists(result.arg)
    /\ "name" \in DOMAIN result.body.fields
    /\ result.body.fields.name = ""
    /\ result.status = 422

\* ------------------------------------------------------------- C22
\* C22: not-found surfaces as 404.  A get or update request that names an
\* agent without a record, its body being well formed, is answered with
\* status 404, in each of the three applications.
C22_NotFoundIs404 ==
    /\ (result.op = "GET /agents/{agent_id}" /\ ~Exists(result.arg))
          => result.status = 404
    /\ (result.op = "PUT /agents/{agent_id}" /\ ~Exists(result.arg)
          /\ ~Malformed(result.op, result.body))
          => result.status = 404
    /\ (result.op = "GET /agents/{name}" /\ result.arg \notin DOMAIN runners)
          => result.status = 404
    /\ (result.op = "GET /api/agents/{name}"
          /\ result.arg \notin {"assistant", "coder"})
          => result.status = 404

\* C22, the part the code keeps: main.py and src/api/routes.py answer 404.
C22_MainAndRoutes404 ==
    /\ (result.op = "GET /agents/{agent_id}" /\ ~Exists(result.arg))
          => result.status = 404
    /\ (result.op = "PUT /agents/{agent_id}" /\ ~Exists(result.arg)
          /\ ~Malformed(result.op, result.body))
          => result.status = 404
    /\ (result.op = "GET /agents/{name}" /\ result.arg \notin DOMAIN runners)
          => result.status = 404

\* ------------------------------------------------------------- C29
\* C29: through PUT /agents/{agent_id}, null members are dropped before the
\* merge and no key is removed.  A record that has a parent_agent_id keeps
\* the key, its value is never None, and a PUT changes only the keys its
\* body gives a value for.
C29_ParentNeverRemoved ==
    [][/\ \A p \in DOMAIN files :
              "parent_agent_id" \in DOMAIN files[p]
                  => /\ p \in DOMAIN files'
                     /\ "parent_agent_id" \in DOMAIN files'[p]
                     /\ files'[p].parent_agent_id # None
       /\ (result'.op = "PUT /agents/{agent_id}" /\ result'.status = 200)
              => LET path == AgentPath(result'.arg)
                 IN  /\ DOMAIN files[path] \subseteq DOMAIN files'[path]
                     /\ \A k \in (DOMAIN files[path])
                                   \ DOMAIN result'.body.fields :
                            files'[path][k] = files[path][k]]_vars

\* A PUT whose parent_agent_id is null went through on a record that has a
\* parent: the record still has it.
C29_Witness ==
    /\ result.op = "PUT /agents/{agent_id}"
    /\ result.status = 200
    /\ "parent_agent_id" \in result.body.nulls
    /\ "parent_agent_id" \in DOMAIN Record(result.arg)
    /\ Record(result.arg).parent_agent_id = Uuid(1)

\* ------------------------------------------------------------- C28
\* C28: create_agent persists only id, name, model, system_prompt and tools.
\* A record just created, whatever parent and classification its config asked
\* for, is returned by _get_children of no id and matches no task type, and a
\* record gets or changes its parent_agent_id only in an update_agent.
C28_CreateMakesNoEdge ==
    [][/\ result'.op = "create"
          => LET r == files'[AgentPath(result'.arg)]
             IN  /\ DOMAIN r = {"id", "name", "model", "system_prompt", "tools"}
                 /\ \A i \in 1..NumEdgeIds :
                        LET kids == GetChildren(files', Uuid(i))
                        IN  \A k \in DOMAIN kids : kids[k].id # result'.arg
                 /\ \A t \in Range(EdgeTasks) : ~SpecMatches(t, r)
       /\ \A p \in DOMAIN files' :
              ("parent_agent_id" \in DOMAIN files'[p]
                  /\ (\/ p \notin DOMAIN files
                      \/ "parent_agent_id" \notin DOMAIN files[p]
                      \/ files[p].parent_agent_id # files'[p].parent_agent_id))
                  => result'.op = "update"]_vars

\* A create whose config named an existing record as parent and "research"
\* as agent_type, capability and specialization.
C28_Witness ==
    /\ result.op = "create"
    /\ result.arg = Uuid(2)
    /\ Exists(Uuid(1))
    /\ result.config.parent_agent_id = Uuid(1)
    /\ result.config.agent_type = "research"

\* ------------------------------------------------------------- C27
\* C27: run_parallel answers with one entry for every requested agent name.
\* The entry of an unregistered name is the ValueError of its run_agent, the
\* entry of a runner that raised is its exception, and the entry of every
\* other name is the result of its own run, events and response included.
C27_OneEntryPerAgent ==
    result.op = "POST /agents/parallel"
        => /\ result.status = 200
           /\ DOMAIN result.out = {result.body[i][1] : i \in DOMAIN result.body}
           /\ \A i \in DOMAIN result.body :
                  LET name == result.body[i][1]
                      entry == result.out[name]
                      behaviour == result.arg[i]
                  IN  /\ name \notin DOMAIN runners
                          => ~entry.ok /\ entry.err = "ValueError"
                      /\ (name \in DOMAIN runners /\ behaviour.raises)
                          => ~entry.ok /\ entry.err = "RunnerError"
                      /\ (name \in DOMAIN runners /\ ~behaviour.raises)
                          => /\ entry.ok
                             /\ entry.val.agent = name
                             /\ entry.val.events = behaviour.events
                             /\ entry.val.response =
                                    ExtractResponse(behaviour.events,
                                                    Len(behaviour.events))

\* Three agents asked at once: the first is not registered, the second's
\* runner raises, the third's run yields events.
C27_Witness ==
    /\ result.op = "POST /agents/parallel"
    /\ Len(result.body) = 3
    /\ result.body[1][1] = "ghost"
    /\ result.arg[2].raises
    /\ result.body[2][1] \in DOMAIN runners
    /\ result.body[3][1] \in DOMAIN runners
    /\ ~result.arg[3].raises
    /\ result.arg[3].events # <<>>

\* ------------------------------------------------------------- C25
\* C25: generate for an agent that has a record ends without an exception
\* and yields at least one chunk: the offline response when the SDK is not
\* usable or raises, the SDK's output otherwise.  For an id without a record
\* it raises FileNotFoundError and has yielded no chunk.
C25_GenerateFallsBack ==
    result.op = "generate"
        => IF Exists(result.arg)
           THEN /\ result.out.ok
                /\ result.out.chunks # <<>>
                /\ result.sdk # "returns"
                     => result.out.chunks =
                            OfflineResponse(Record(result.arg), result.input)
                /\ result.sdk = "returns"
                     => result.out.chunks = << SdkOutput >>
           ELSE /\ ~result.out.ok
                /\ result.out.err = "FileNotFoundError"
                /\ result.out.chunks = <<>>

\* The SDK raised in the run for an agent whose system prompt is blank: the
\* chunks are the words of the offline response.
C25_Witness ==
    /\ result.op = "generate"
    /\ result.sdk = "raises"
    /\ result.input = "a b"
    /\ result.out.ok
    /\ result.out.chunks =
           << "[alpha] ", "I'm ", "ready ", "to ", "help. ", "Here ", "is ",
              "a ", "short ", "reply ", "to ", "'a ", "b': ", "b ", "a " >>

\* ------------------------------------------------------------- C26
\* C26: the step in which a chat handler that entered its receive loop ends
\* leaves no session under the connection's session id, removes no other
\* session and changes none; while a connection is open it has at most one
\* session, and that session is kept, not replaced.
C26_SessionsClosedAtEnd ==
    [][\A ws \in DOMAIN sockets :
          /\ (sockets[ws].pc \in {"receiving", "sending"}
                 /\ sockets'[ws].pc = "closed")
               => /\ \A k \in DOMAIN sessions' : k[2] # SessionId(ws)
                  /\ DOMAIN sessions' \subseteq DOMAIN sessions
                  /\ \A k \in DOMAIN sessions :
                         k[2] # SessionId(ws)
                             => k \in DOMAIN sessions'
                                /\ sessions'[k] = sessions[k]
          /\ sockets'[ws].pc # "closed"
               => /\ Cardinality({k \in DOMAIN sessions' :
                                     k[2] = SessionId(ws)}) <= 1
                  /\ \A k \in DOMAIN sessions :
                         k[2] = SessionId(ws)
                             => /\ k \in DOMAIN sessions'
                                /\ sessions'[k].name = sessions[k].name
                                /\ sessions'[k].turns >= sessions[k].turns
      ]_vars

\* A handler that took its message and was ended by an exception of
\* send_text that is not a disconnect: no session has its session id, and
\* the session of the other connection is there with its turn.
C26_Witness ==
    /\ "w1" \in DOMAIN sockets
    /\ sockets["w1"].pc = "closed"
    /\ sockets["w1"].exit = "RuntimeError"
    /\ sockets["w1"].asked = 1
    /\ sockets["w1"].inbox = <<>>
    /\ \A k \in DOMAIN sessions : k[2] # SessionId("w1")
    /\ \E k \in DOMAIN sessions : k[2] = SessionId("w2") /\ sessions[k].turns = 1

\* ------------------------------------------------------------- C23
\* C23 as stated: every message a client has sent on the socket of an
\* existing agent is eventually answered with at least one chunk.
C23_EveryMessageAnswered ==
    \A ws \in LiveSockets : \A k \in 1..MaxMessages :
        (ws \in DOMAIN sockets /\ sockets[ws].asked >= k)
            ~> (ws \in DOMAIN sockets /\ sockets[ws].answered >= k)

\* C23, amended: every message a client has sent on the socket of an
\* existing agent is eventually answered with at least one chunk, or the
\* client has closed the connection.
C23_AnsweredWhileConnected ==
    \A ws \in LiveSockets : \A k \in 1..MaxMessages :
        (ws \in DOMAIN sockets /\ sockets[ws].asked >= k)
            ~> (ws \in DOMAIN sockets
                /\ (sockets[ws].answered >= k \/ sockets[ws].peer = "gone"))

\* The first chunk of an offline response has been sent to a connected
\* client after the SDK raised in the run: the session it made is there,
\* without a turn.
C23_Witness ==
    \E ws \in DOMAIN sockets :
        /\ sockets[ws].peer = "open"
        /\ sockets[ws].answered = 1
        /\ sockets[ws].part = 1
        /\ sockets[ws].chunks # <<>>
        /\ sockets[ws].chunks[1] = "I'm "
        /\ \E k \in DOMAIN sessions :
               k[2] = SessionId(ws) /\ sessions[k].turns = 0

\* ------------------------------------------------------------- C24
IsPrefix(log, list) ==
    Len(log) <= Len(list) /\ \A i \in DOMAIN log : log[i] = list[i]
ChatPattern(events, last) ==
    << "ack", "session" >> \o [i \in 1..events |-> "event"] \o << last >>
Last(log) == log[Len(log)]

\* C24: the messages handle_chat has sent for a chat message are in order.
\* For a registered agent they are the beginning of ack, session, events,
\* then complete or error, complete being sent only when run_async finished
\* and a run that raised being followed by error; for an unregistered agent
\* they are the beginning of ack, error.  When handle_chat has returned the
\* sequence is whole.
C24_ChatMessagesInOrder ==
    \A ws \in DOMAIN sockets :
        LET socket == sockets[ws]
            log == socket.log
            returned == socket.pc = "receiving" /\ log # <<>>
        IN  IF socket.found
            THEN /\ \E n \in 0..MaxEvents, last \in {"complete", "error"} :
                        /\ IsPrefix(log, ChatPattern(n, last))
                        /\ returned => log = ChatPattern(n, last)
                 /\ \A i \in DOMAIN log :
                        log[i] = "complete" => socket.run = "finished"
                 /\ (returned /\ socket.run = "raised") => Last(log) = "error"
                 /\ (returned /\ socket.run = "finished")
                        => Last(log) = "complete"
            ELSE /\ IsPrefix(log, << "ack", "error" >>)
                 /\ returned => log = << "ack", "error" >>

\* handle_chat has returned after a run that yielded an event and raised,
\* and on another connection after a chat for an agent that is not
\* registered.
C24_Witness ==
    /\ DOMAIN sockets = WsSockets
    /\ \E ws \in WsSockets :
           /\ sockets[ws].pc = "receiving"
           /\ sockets[ws].run = "raised"
           /\ sockets[ws].log = << "ack", "session", "event", "error" >>
    /\ \E ws \in WsSockets :
           /\ sockets[ws].pc = "receiving"
           /\ sockets[ws].agent = "ghost"
           /\ sockets[ws].log = << "ack", "error" >>

\* ------------------------------------------------------------- C30
\* C30: a connection whose websocket_endpoint handler has ended is in no set
\* of active_connections.
C30_EndedMeansRemoved ==
    \A ws \in DOMAIN sockets :
        sockets[ws].pc = "closed"
            => \A u \in DOMAIN active_connections :
                   ws \notin active_connections[u]

\* active_connections maps no user id to an empty set, and holds every
\* connection whose handler has not ended.
C30_NoEmptySet ==
    /\ \A u \in DOMAIN active_connections : active_connections[u] # {}
    /\ \A ws \in DOMAIN sockets :
           sockets[ws].pc # "closed"
               => /\ sockets[ws].user_id \in DOMAIN active_connections
                  /\ ws \in active_connections[sockets[ws].user_id]

====
